---- MODULE Spec2Model ----
(***************************************************************************)
(* Model of the AAP issuance program (src/main.py): the issuance ledger    *)
(* (AAP DB.xlsx), the employee directory (Darbuotojai.xlsx), the gear-code *)
(* catalog (Aprangos kodai.xlsx), the four wizard pages and the pure       *)
(* helpers (dates, size suffixes).                                         *)
(*                                                                         *)
(* Text is a sequence of one-character strings, so that strip, split and   *)
(* rfind are computed as Python computes them.  A spreadsheet cell is a    *)
(* record [k, s, n]: k = "none" (empty cell), "str" (text s) or "int"      *)
(* (number n).  A date is a record [y, m, d]; NoDate stands for None.      *)
(***************************************************************************)
EXTENDS Integers, Sequences, FiniteSets, TLC

---------------------------------------------------------------------------
(* Text helpers: str.strip, str.split, str.rfind, "in", str.endswith       *)

IsSpace(c) == c = " "

RECURSIVE LStrip(_)
LStrip(t) == IF t = <<>> THEN <<>>
             ELSE IF IsSpace(Head(t)) THEN LStrip(Tail(t)) ELSE t

RECURSIVE RStrip(_)
RStrip(t) == IF t = <<>> THEN <<>>
             ELSE IF IsSpace(t[Len(t)]) THEN RStrip(SubSeq(t, 1, Len(t) - 1)) ELSE t

Strip(t) == RStrip(LStrip(t))

Contains(t, c) == \E i \in 1..Len(t) : t[i] = c

\* str.find(c) as a 1-based index, 0 when c does not occur
Find(t, c) == IF Contains(t, c)
              THEN CHOOSE i \in 1..Len(t) : t[i] = c /\ \A j \in 1..(i - 1) : t[j] # c
              ELSE 0

\* str.rfind(c) as a 1-based index, 0 when c does not occur
RFind(t, c) == IF Contains(t, c)
               THEN CHOOSE i \in 1..Len(t) : t[i] = c /\ \A j \in (i + 1)..Len(t) : t[j] # c
               ELSE 0

EndsWith(t, c) == t # <<>> /\ t[Len(t)] = c

\* str.split() on whitespace: the list of words
RECURSIVE Words(_)
Words(t) ==
    LET u == LStrip(t) IN
    IF u = <<>> THEN <<>>
    ELSE LET k == IF Contains(u, " ") THEN Find(u, " ") - 1 ELSE Len(u)
         IN <<SubSeq(u, 1, k)>> \o Words(SubSeq(u, k + 1, Len(u)))

\* " ".join(words)
RECURSIVE JoinWords(_)
JoinWords(ws) == IF ws = <<>> THEN <<>>
                 ELSE IF Len(ws) = 1 THEN ws[1]
                 ELSE ws[1] \o <<" ">> \o JoinWords(Tail(ws))

\* str.split(sep) on a one-character separator: the list of parts
RECURSIVE SplitOn(_, _)
SplitOn(t, sep) ==
    IF ~Contains(t, sep) THEN <<t>>
    ELSE LET k == Find(t, sep)
         IN <<SubSeq(t, 1, k - 1)>> \o SplitOn(SubSeq(t, k + 1, Len(t)), sep)

DigitChars == <<"0", "1", "2", "3", "4", "5", "6", "7", "8", "9">>

IsDigit(c) == \E i \in 1..10 : DigitChars[i] = c

DigitVal(c) == (CHOOSE i \in 1..10 : DigitChars[i] = c) - 1

AllDigits(t) == t # <<>> /\ \A i \in 1..Len(t) : IsDigit(t[i])

RECURSIVE DigitsVal(_)
DigitsVal(t) == IF t = <<>> THEN 0
                ELSE 10 * DigitsVal(SubSeq(t, 1, Len(t) - 1)) + DigitVal(t[Len(t)])

\* the decimal digits of n >= 0, zero-padded to at least w characters
RECURSIVE ZeroPad(_, _)
ZeroPad(n, w) == IF n < 10 /\ w <= 1 THEN <<DigitChars[n + 1]>>
                 ELSE ZeroPad(n \div 10, w - 1) \o <<DigitChars[(n % 10) + 1]>>

---------------------------------------------------------------------------
(* Spreadsheet cells                                                       *)

NoneCell == [k |-> "none", s |-> <<>>, n |-> 0]
StrCell(t) == [k |-> "str", s |-> t, n |-> 0]
IntCell(i) == [k |-> "int", s |-> <<>>, n |-> i]

\* str(v or "") for a cell
CellText(c) == IF c.k = "str" THEN c.s
               ELSE IF c.k = "int" /\ c.n # 0
                    THEN (IF c.n < 0 THEN <<"-">> \o ZeroPad(0 - c.n, 1) ELSE ZeroPad(c.n, 1))
                    ELSE <<>>

\* Python truth value of a cell
Truthy(c) == (c.k = "str" /\ c.s # <<>>) \/ (c.k = "int" /\ c.n # 0)

---------------------------------------------------------------------------
(* Dates: datetime.date, date.isoformat, parse_date, add_months            *)

NoDate == [y |-> 0, m |-> 0, d |-> 0]
MkDate(y, m, d) == [y |-> y, m |-> m, d |-> d]

IsLeap(y) == (y % 4 = 0) /\ ((y % 100 # 0) \/ (y % 400 = 0))

DaysInMonth(y, m) ==
    IF m = 2 THEN (IF IsLeap(y) THEN 29 ELSE 28)
    ELSE IF m \in {4, 6, 9, 11} THEN 30 ELSE 31

ValidDate(y, m, d) == y \in 1..9999 /\ m \in 1..12 /\ d >= 1 /\ d <= DaysInMonth(y, m)

RECURSIVE DaysBeforeMonth(_, _)
DaysBeforeMonth(y, m) == IF m <= 1 THEN 0
                         ELSE DaysBeforeMonth(y, m - 1) + DaysInMonth(y, m - 1)

\* date.toordinal
Ordinal(dt) ==
    LET p == dt.y - 1
    IN 365 * p + (p \div 4) - (p \div 100) + (p \div 400) + DaysBeforeMonth(dt.y, dt.m) + dt.d

\* (a - b).days
DaysBetween(a, b) == Ordinal(a) - Ordinal(b)

\* dt - timedelta(days=1)
DayBefore(dt) ==
    IF dt.d > 1 THEN MkDate(dt.y, dt.m, dt.d - 1)
    ELSE IF dt.m > 1 THEN MkDate(dt.y, dt.m - 1, DaysInMonth(dt.y, dt.m - 1))
    ELSE MkDate(dt.y - 1, 12, 31)

DateLess(a, b) == Ordinal(a) < Ordinal(b)

\* date.isoformat(): YYYY-MM-DD
IsoFormat(dt) == ZeroPad(dt.y, 4) \o <<"-">> \o ZeroPad(dt.m, 2) \o <<"-">> \o ZeroPad(dt.d, 2)

\* datetime.strptime(s, fmt).date() for a format of three numeric fields
\* separated by sep; yi, mi, di are the positions of %Y, %m, %d.  NoDate
\* stands for the ValueError.
StrpDate(t, sep, yi, mi, di) ==
    LET ps == SplitOn(t, sep) IN
    IF Len(ps) # 3 THEN NoDate
    ELSE IF ~(AllDigits(ps[1]) /\ AllDigits(ps[2]) /\ AllDigits(ps[3])) THEN NoDate
    ELSE IF Len(ps[yi]) # 4 \/ Len(ps[mi]) > 2 \/ Len(ps[di]) > 2 THEN NoDate
    ELSE LET y == DigitsVal(ps[yi])
             m == DigitsVal(ps[mi])
             d == DigitsVal(ps[di])
         IN IF ValidDate(y, m, d) THEN MkDate(y, m, d) ELSE NoDate

parse_date(value) ==
    IF value.k = "none" THEN NoDate
    ELSE LET t == Strip(CellText(value))
             a == StrpDate(t, "-", 1, 2, 3)
             b == StrpDate(t, ".", 3, 2, 1)
             c == StrpDate(t, "/", 1, 2, 3)
             e == StrpDate(t, ".", 1, 2, 3)
         IN IF a # NoDate THEN a
            ELSE IF b # NoDate THEN b
            ELSE IF c # NoDate THEN c
            ELSE e

\* a variant that keeps a month's last day a month's last day
add_months_last(start_date, months) ==
    IF start_date = NoDate THEN NoDate
    ELSE LET month0 == start_date.m - 1 + months
             year == start_date.y + (month0 \div 12)
             month == (month0 % 12) + 1
             last_day == DaysInMonth(year, month)
             day == IF start_date.d < last_day /\ start_date.d < DaysInMonth(start_date.y, start_date.m)
                    THEN start_date.d ELSE last_day
         IN MkDate(year, month, day)

\* a variant that clamps the day to 28 in every month
add_months_28(start_date, months) ==
    IF start_date = NoDate THEN NoDate
    ELSE LET month0 == start_date.m - 1 + months
             year == start_date.y + (month0 \div 12)
             month == (month0 % 12) + 1
             day == IF start_date.d < 28 THEN start_date.d ELSE 28
         IN MkDate(year, month, day)

add_months(start_date, months) ==
    IF start_date = NoDate THEN NoDate
    ELSE LET month0 == start_date.m - 1 + months
             year == start_date.y + (month0 \div 12)
             month == (month0 % 12) + 1
             first_next == IF month = 12 THEN MkDate(year + 1, 1, 1)
                           ELSE MkDate(year, month + 1, 1)
             last_day == DayBefore(first_next).d
             day == IF start_date.d < last_day THEN start_date.d ELSE last_day
         IN MkDate(year, month, day)

---------------------------------------------------------------------------
(* Size-qualified codes and names                                          *)

split_code_and_size(code) ==
    LET c == Strip(code) IN
    IF Contains(c, "-")
    THEN LET k == Find(c, "-")
         IN [base |-> Strip(SubSeq(c, 1, k - 1)), size |-> Strip(SubSeq(c, k + 1, Len(c)))]
    ELSE [base |-> c, size |-> <<>>]

\* a variant that cuts at the first "(" instead of the last
strip_size_suffix_first(name) ==
    IF name = <<>> THEN <<>>
    ELSE LET t == Strip(name)
         IN IF Contains(t, "(") /\ EndsWith(t, ")") THEN Strip(SubSeq(t, 1, Find(t, "(") - 1))
            ELSE t

strip_size_suffix(name) ==
    IF name = <<>> THEN <<>>
    ELSE LET t == Strip(name) IN
         IF Contains(t, "(") /\ EndsWith(t, ")")
         THEN Strip(SubSeq(t, 1, RFind(t, "(") - 1))
         ELSE t

SizeWord == <<" ", "d", "y", "d", "i", "s", ")">>

ensure_size_suffix(name, size) ==
    IF size = <<>> THEN name
    ELSE Strip(strip_size_suffix(name) \o <<" ", "(">> \o size \o SizeWord)

---------------------------------------------------------------------------
(* Ordering of text, for sorted() and list.sort(key=...)                   *)

\* the characters the model uses, in code-point order
Alphabet == <<" ", "(", ")", "-", ".", "/",
              "0", "1", "2", "3", "4", "5", "6", "7", "8", "9",
              "A", "B", "D", "E", "G", "H", "P", "X",
              "a", "d", "i", "s", "x", "y">>

CharRank(c) == CHOOSE i \in 1..Len(Alphabet) : Alphabet[i] = c

RECURSIVE TextLess(_, _)
TextLess(a, b) ==
    IF b = <<>> THEN FALSE
    ELSE IF a = <<>> THEN TRUE
    ELSE IF Head(a) = Head(b) THEN TextLess(Tail(a), Tail(b))
    ELSE CharRank(Head(a)) < CharRank(Head(b))

\* sorted(S) for a set of texts
RECURSIVE SortedTexts(_)
SortedTexts(S) ==
    IF S = {} THEN <<>>
    ELSE LET lo == CHOOSE a \in S : \A b \in S \ {a} : TextLess(a, b)
         IN <<lo>> \o SortedTexts(S \ {lo})

SeqToSet(q) == {q[i] : i \in 1..Len(q)}

---------------------------------------------------------------------------
(* State                                                                   *)

VARIABLES
    directory,          \* Darbuotojai.xlsx: the rows below the header
    ledger,             \* AAP DB.xlsx: the rows below the header
    gear_file,          \* Aprangos kodai.xlsx: the rows below the header
    gear_codes,         \* AAPApp.gear_codes: code -> name, as loaded
    current_employee,   \* AAPApp.current_employee
    change_mode,        \* AAPApp.change_mode
    page,               \* the page raised last (tkraise)
    closed,             \* AAPApp.destroy() was called
    info,               \* EmployeeInfoPage: its StringVars and combobox values
    rows,               \* NewGearPage.rows: code, months, name per line
    after,              \* NewGearPage._after: lines with a pending apply_code
    asked_unknown,      \* NewGearPage._asked_unknown
    today,              \* date.today()
    ret,                \* the value returned by the repository call observed last
    inflight,           \* run_generation calls between their read and their write
    log                 \* history: the issuance transactions, oldest first

vars == <<directory, ledger, gear_file, gear_codes, current_employee, change_mode,
          page, closed, info, rows, after, asked_unknown, today, ret, inflight, log>>

\* EmployeeInfo (dataclass); some = FALSE stands for None
NoEmployee == [some |-> FALSE, tab_nr |-> <<>>, name |-> <<>>, department |-> <<>>,
               position |-> <<>>, gender |-> "", issue_date |-> NoDate]

EmployeeInfo(tab_nr, name, department, position, gender, issue_date) ==
    [some |-> TRUE, tab_nr |-> tab_nr, name |-> name, department |-> department,
     position |-> position, gender |-> gender, issue_date |-> issue_date]

NoRet == [op |-> "none", who |-> NoEmployee, num |-> 0, out |-> <<>>, raised |-> FALSE]

---------------------------------------------------------------------------
(* DarbuotojaiRepo                                                         *)

DirRow(vardas, pavarde, tab, pareigos, padalinys, lytis) ==
    [Vardas |-> vardas, Pavarde |-> pavarde, TabNr |-> tab,
     Pareigos |-> pareigos, Padalinys |-> padalinys, Lytis |-> lytis]

\* load_all: rows with no truthy cell are skipped, every cell is stripped
DirRowBlank(r) == r.Vardas = <<>> /\ r.Pavarde = <<>> /\ r.TabNr = <<>>
                  /\ r.Pareigos = <<>> /\ r.Padalinys = <<>> /\ r.Lytis = ""

RECURSIVE load_all(_)
load_all(dir) ==
    IF dir = <<>> THEN <<>>
    ELSE LET r == Head(dir) IN
         (IF DirRowBlank(r) THEN <<>>
          ELSE <<DirRow(Strip(r.Vardas), Strip(r.Pavarde), Strip(r.TabNr),
                        Strip(r.Pareigos), Strip(r.Padalinys), r.Lytis)>>)
         \o load_all(Tail(dir))

list_departments(dir) ==
    SortedTexts({r.Padalinys : r \in {x \in SeqToSet(load_all(dir)) : x.Padalinys # <<>>}})

list_positions_for_department(dir, dept) ==
    SortedTexts({r.Pareigos : r \in {x \in SeqToSet(load_all(dir)) :
                                        x.Padalinys = Strip(dept) /\ x.Pareigos # <<>>}})

\* find_by_tab: the first row with this TabNr; found = FALSE stands for None
find_by_tab(dir, tab_nr) ==
    LET t == Strip(tab_nr)
        all == load_all(dir)
        hits == {i \in 1..Len(all) : Strip(all[i].TabNr) = t}
    IN IF t = <<>> \/ hits = {} THEN [found |-> FALSE, row |-> DirRow(<<>>, <<>>, <<>>, <<>>, <<>>, "")]
       ELSE [found |-> TRUE, row |-> all[CHOOSE i \in hits : \A j \in hits : i <= j]]

\* a variant that writes into row 2 without inserting a row first
InsertTop_over(sheet, row) == IF sheet = <<>> THEN <<row>> ELSE [sheet EXCEPT ![1] = row]

\* the worksheet after ws.insert_rows(2) and the six ws.cell(2, ...) writes
InsertTop(sheet, row) == <<row>> \o sheet

\* a variant that inserts a row whether or not the TabNr is there
upsert_insert(dir, e) ==
    LET tab_nr == Strip(e.tab_nr)
        vp == Strip(e.name)
    IN IF tab_nr = <<>> \/ vp = <<>> THEN dir
       ELSE LET parts == Words(vp)
                vardas == IF parts # <<>> THEN parts[1] ELSE vp
                pavarde == IF Len(parts) > 1 THEN JoinWords(Tail(parts)) ELSE <<>>
            IN InsertTop(dir, DirRow(vardas, pavarde, tab_nr, e.position, e.department, e.gender))

upsert(dir, e) ==
    LET tab_nr == Strip(e.tab_nr)
        vp == Strip(e.name)
    IN IF tab_nr = <<>> \/ vp = <<>> THEN dir
       ELSE LET parts == Words(vp)
                vardas == IF parts # <<>> THEN parts[1] ELSE vp
                pavarde == IF Len(parts) > 1 THEN JoinWords(Tail(parts)) ELSE <<>>
                new == DirRow(vardas, pavarde, tab_nr, e.position, e.department, e.gender)
                hits == {i \in 1..Len(dir) : Strip(dir[i].TabNr) = tab_nr}
            IN IF hits = {} THEN InsertTop(dir, new)
               ELSE LET found == CHOOSE i \in hits : \A j \in hits : i <= j
                    IN [dir EXCEPT ![found] = new]

\* AAPApp.list_employees / find_employee_by_tab: a directory row as EmployeeInfo
FullName(r) == JoinWords(Words(Strip(r.Vardas) \o <<" ">> \o Strip(r.Pavarde)))

RowEmployee(r) ==
    EmployeeInfo(Strip(r.TabNr), FullName(r), Strip(r.Padalinys), Strip(r.Pareigos),
                 IF r.Lytis = "" THEN "Vyras" ELSE r.Lytis, NoDate)

\* out.sort(key=lambda e: e.tab_nr): a stable insertion into sorted order
RECURSIVE InsertByTab(_, _)
InsertByTab(sorted, e) ==
    IF sorted = <<>> THEN <<e>>
    ELSE IF TextLess(e.tab_nr, Head(sorted).tab_nr) THEN <<e>> \o sorted
    ELSE <<Head(sorted)>> \o InsertByTab(Tail(sorted), e)

RECURSIVE SortByTab(_)
SortByTab(es) == IF es = <<>> THEN <<>>
                 ELSE InsertByTab(SortByTab(SubSeq(es, 1, Len(es) - 1)), es[Len(es)])

list_employees(dir) ==
    LET all == load_all(dir)
        keep == SelectSeq(all, LAMBDA r : Strip(r.TabNr) # <<>>)
    IN SortByTab([i \in 1..Len(keep) |-> RowEmployee(keep[i])])

---------------------------------------------------------------------------
(* AAPDbRepo                                                               *)

\* one worksheet row of AAP DB.xlsx, by AAP_DB_COLUMNS
LedgerRow(numeris, vardas, tab, padalinys, pareigos, lytis, kodas, apranga, isduota, men) ==
    [Numeris |-> numeris, Vardas |-> vardas, TabNr |-> tab, Padalinys |-> padalinys,
     Pareigos |-> pareigos, Lytis |-> lytis, Kodas |-> kodas, Apranga |-> apranga,
     Isduota |-> isduota, Susidevejimas |-> men]

\* any(row)
AnyCell(r) == Truthy(r.Numeris) \/ r.Vardas # <<>> \/ r.TabNr # <<>> \/ r.Padalinys # <<>>
              \/ r.Pareigos # <<>> \/ r.Lytis # "" \/ r.Kodas # <<>> \/ r.Apranga # <<>>
              \/ Truthy(r.Isduota) \/ Truthy(r.Susidevejimas)

load_rows(sheet) == SelectSeq(sheet, AnyCell)

\* int(v): ok = FALSE stands for the ValueError
IntOf(c) ==
    IF c.k = "int" THEN [ok |-> TRUE, n |-> c.n]
    ELSE IF c.k = "none" THEN [ok |-> FALSE, n |-> 0]
    ELSE LET t == Strip(c.s)
             neg == t # <<>> /\ Head(t) = "-"
             u == IF neg THEN Tail(t) ELSE t
         IN IF AllDigits(u) THEN [ok |-> TRUE, n |-> IF neg THEN 0 - DigitsVal(u) ELSE DigitsVal(u)]
            ELSE [ok |-> FALSE, n |-> 0]

\* v not in (None, "")
NotBlank(c) == ~(c.k = "none" \/ (c.k = "str" /\ c.s = <<>>))

\* a variant that reads only the numbers stored as text
RECURSIVE DocNums_text(_)
DocNums_text(rs) ==
    IF rs = <<>> THEN <<>>
    ELSE LET v == Head(rs).Numeris IN
         (IF v.k = "str" /\ NotBlank(v) /\ IntOf(v).ok THEN <<IntOf(v).n>> ELSE <<>>)
         \o DocNums_text(Tail(rs))

\* the list nums built by the loop of next_document_number
RECURSIVE DocNums(_)
DocNums(rs) ==
    IF rs = <<>> THEN <<>>
    ELSE LET v == Head(rs).Numeris IN
         (IF NotBlank(v) /\ IntOf(v).ok THEN <<IntOf(v).n>> ELSE <<>>) \o DocNums(Tail(rs))

MaxOf(nums) == CHOOSE x \in SeqToSet(nums) : \A y \in SeqToSet(nums) : y <= x

\* a variant that counts the rows instead of reading their numbers
next_document_number_rows(sheet) == Len(load_rows(sheet)) + 1

next_document_number(sheet) ==
    LET nums == DocNums(load_rows(sheet))
    IN (IF nums # <<>> THEN MaxOf(nums) ELSE 0) + 1

\* int(it.get("months", 0) or 0) of an item collected from the form
IssuedRow(employee, it, doc_no, issued_date) ==
    LedgerRow(IntCell(doc_no), employee.name, employee.tab_nr, employee.department,
              employee.position, employee.gender, it.code, it.name,
              StrCell(IsoFormat(issued_date)), IntCell(it.months))

\* for it in reversed(issued_items): ws.insert_rows(2); ws.cell(2, ...) ...
RECURSIVE append_issuance(_, _, _, _, _)
append_issuance(sheet, employee, issued_items, doc_no, issued_date) ==
    IF issued_items = <<>> THEN sheet
    ELSE LET n == Len(issued_items)
             it == issued_items[n]
         IN append_issuance(InsertTop(sheet, IssuedRow(employee, it, doc_no, issued_date)),
                            employee, SubSeq(issued_items, 1, n - 1), doc_no, issued_date)

\* the one element of a singleton set (its element is evaluated once)
Only(S) == CHOOSE x \in S : TRUE

\* a variant that never replaces the record kept for a base name
LatestWith_first(latest, r, base, issued) ==
    IF \E i \in 1..Len(latest) : latest[i].base = base THEN latest
    ELSE Append(latest, [base |-> base, row |-> r, issued |-> issued])

\* a variant that replaces the kept record on an equal date too
LatestWith_last(latest, r, base, issued) ==
    LET at == {i \in 1..Len(latest) : latest[i].base = base}
        new == [base |-> base, row |-> r, issued |-> issued]
    IN IF at = {} THEN Append(latest, new)
       ELSE LET i == CHOOSE j \in at : TRUE
            IN IF ~DateLess(issued, latest[i].issued) THEN [latest EXCEPT ![i] = new]
               ELSE latest

\* the dict latest after one more row r of rel whose name is nm and whose parsed date is issued
LatestWith(latest, r, base, issued) ==
    LET at == {i \in 1..Len(latest) : latest[i].base = base}
        new == [base |-> base, row |-> r, issued |-> issued]
    IN IF at = {} THEN Append(latest, new)
       ELSE LET i == CHOOSE j \in at : TRUE
            IN IF DateLess(latest[i].issued, issued) THEN [latest EXCEPT ![i] = new]
               ELSE latest

\* one pass of the loop over rel
LatestStep(latest, r) ==
    LET nm == Strip(r.Apranga)
    IN IF nm = <<>> THEN latest
       ELSE Only({IF issued = NoDate THEN latest
                  ELSE LatestWith(latest, r, strip_size_suffix(nm), issued) :
                  issued \in {parse_date(r.Isduota)}})

\* the dict latest after the loop over rel, in insertion order of its keys
RECURSIVE LatestByBase(_, _)
LatestByBase(rel, latest) ==
    IF rel = <<>> THEN latest
    ELSE Only({LatestByBase(Tail(rel), l) : l \in {LatestStep(latest, Head(rel))}})

GearEntry(apranga, kodas, isduota, men, keisti, like_none, like) ==
    [Apranga |-> apranga, Kodas |-> kodas, Isduota |-> isduota, Men |-> men,
     KeistiIki |-> keisti, LikeNone |-> like_none, Like |-> like]

\* a variant that leaves the change date out when the wear period is not positive
EntryOf_absent(r, day) ==
    LET issued == parse_date(r.Isduota)
        months == IF Truthy(r.Susidevejimas) THEN IntOf(r.Susidevejimas).n ELSE 0
        change_date == IF issued # NoDate /\ months > 0 THEN add_months(issued, months) ELSE NoDate
    IN [Apranga |-> r.Apranga, Kodas |-> r.Kodas, Isduota |-> issued, Men |-> months,
        KeistiIki |-> change_date, LikeNone |-> change_date = NoDate,
        Like |-> IF change_date # NoDate THEN DaysBetween(change_date, day) ELSE 0]

\* the dict appended to out for one surviving row
EntryOf(r, day) ==
    Only({GearEntry(r.Apranga, r.Kodas, c.issued, c.months, c.change_date,
                    c.change_date = NoDate,
                    IF c.change_date # NoDate THEN DaysBetween(c.change_date, day) ELSE 0) :
          c \in {LET issued == parse_date(r.Isduota)
                     months == IF Truthy(r.Susidevejimas) THEN IntOf(r.Susidevejimas).n ELSE 0
                 IN [issued |-> issued, months |-> months,
                     change_date |-> IF issued # NoDate THEN add_months(issued, months)
                                     ELSE NoDate]}})

\* key=lambda x: (x["Likę"] is None, x["Likę"] if x["Likę"] is not None else 10**9)
BigKey == 1000000000

\* a variant that sorts by descending key
SortKeyLess_desc(a, b) ==
    LET ka == IF a.LikeNone THEN BigKey ELSE a.Like
        kb == IF b.LikeNone THEN BigKey ELSE b.Like
    IN kb < ka

SortKeyLess(a, b) ==
    LET ka == IF a.LikeNone THEN BigKey ELSE a.Like
        kb == IF b.LikeNone THEN BigKey ELSE b.Like
    IN IF a.LikeNone # b.LikeNone THEN b.LikeNone
       ELSE ka < kb

\* list.sort is stable: an entry goes after the entries whose key is not greater
RECURSIVE InsertByKey(_, _)
InsertByKey(sorted, x) ==
    IF sorted = <<>> THEN <<x>>
    ELSE IF SortKeyLess(x, Head(sorted)) THEN <<x>> \o sorted
    ELSE <<Head(sorted)>> \o InsertByKey(Tail(sorted), x)

RECURSIVE SortByKey(_)
SortByKey(out) ==
    IF out = <<>> THEN <<>>
    ELSE Only({InsertByKey(s, out[Len(out)]) : s \in {SortByKey(SubSeq(out, 1, Len(out) - 1))}})

\* a variant that filters by Tab. Nr only
RelevantRow_tab(r, employee) == Strip(r.TabNr) = employee.tab_nr

\* rows of this employee in the employee's present department and position
RelevantRow(r, employee) ==
    /\ Strip(r.TabNr) = employee.tab_nr
    /\ Strip(r.Padalinys) = employee.department
    /\ Strip(r.Pareigos) = employee.position

\* int(r.get("Susidėvėjimas") or 0) raises ValueError on text that is no number
MonthsRaise(r) == Truthy(r.Susidevejimas) /\ ~IntOf(r.Susidevejimas).ok

\* the list out before the sort
RECURSIVE Entries(_, _)
Entries(latest, day) ==
    IF latest = <<>> THEN <<>>
    ELSE <<EntryOf(Head(latest).row, day)>> \o Entries(Tail(latest), day)

current_gear_for_employee(sheet, employee, day) ==
    Only({IF \E i \in 1..Len(latest) : MonthsRaise(latest[i].row)
          THEN [raised |-> TRUE, out |-> <<>>]
          ELSE [raised |-> FALSE, out |-> SortByKey(Entries(latest, day))] :
          latest \in {LatestByBase(SelectSeq(load_rows(sheet), LAMBDA r : RelevantRow(r, employee)), <<>>)}})

---------------------------------------------------------------------------
(* Gear-code catalog: Aprangos kodai.xlsx and AAPApp.gear_codes            *)

GearRow(code, name) == [code |-> code, name |-> name]

\* the dict built by load_gear_codes_from_excel: a later row of a code wins
load_gear_codes_from_excel(file) ==
    LET ok == {i \in 1..Len(file) : Strip(file[i].code) # <<>> /\ Strip(file[i].name) # <<>>}
        codes == {Strip(file[i].code) : i \in ok}
    IN [c \in codes |->
          LET last == CHOOSE i \in ok : /\ Strip(file[i].code) = c
                                        /\ \A j \in ok : Strip(file[j].code) = c => j <= i
          IN Strip(file[last].name)]

\* a variant that appends without looking at column 1
add_gear_code_to_excel_always(file, code0, name0) ==
    LET code == Strip(code0)
        name == Strip(name0)
    IN IF code = <<>> \/ name = <<>> THEN file
       ELSE Append(file, GearRow(code, name))

add_gear_code_to_excel(file, code0, name0) ==
    LET code == Strip(code0)
        name == Strip(name0)
        existing == {Strip(file[i].code) : i \in 1..Len(file)}
    IN IF code = <<>> \/ name = <<>> THEN file
       ELSE IF code \in existing THEN file
       ELSE Append(file, GearRow(code, name))

\* AAPApp.ensure_gear_code_exists: the catalog file afterwards
ensure_gear_code_exists(file, codes, code_base0, name_base0) ==
    LET code_base == Strip(code_base0)
        name_base == Strip(strip_size_suffix(name_base0))
    IN IF code_base = <<>> \/ name_base = <<>> THEN file
       ELSE IF code_base \notin DOMAIN codes THEN add_gear_code_to_excel(file, code_base, name_base)
       ELSE file

\* AAPApp.gear_codes after ensure_gear_code_exists: reloaded only when the code was missing
GearCodesAfterEnsure(file, codes, code_base0, name_base0) ==
    LET code_base == Strip(code_base0)
        name_base == Strip(strip_size_suffix(name_base0))
    IN IF code_base = <<>> \/ name_base = <<>> THEN codes
       ELSE IF code_base \notin DOMAIN codes
            THEN load_gear_codes_from_excel(add_gear_code_to_excel(file, code_base, name_base))
            ELSE codes

---------------------------------------------------------------------------
(* EmployeeInfoPage                                                        *)

FirstOr(q, dflt) == IF q # <<>> THEN q[1] ELSE dflt

\* _on_dept_change
on_dept_change(inf, dir) ==
    LET dept == Strip(inf.dept_var)
        positions == IF dept # <<>> THEN list_positions_for_department(dir, dept) ELSE <<>>
    IN [inf EXCEPT !.pos_values = positions,
                   !.pos_var = IF inf.pos_var \in SeqToSet(positions) THEN inf.pos_var
                               ELSE FirstOr(positions, <<>>)]

\* EmployeeInfoPage.refresh
InfoRefresh(inf, dir, e, day) ==
    LET depts == list_departments(dir)
        i0 == [inf EXCEPT !.dept_values = depts]
    IN IF e.some
       THEN LET i1 == [i0 EXCEPT !.tab_var = e.tab_nr, !.name_var = e.name,
                                 !.gender_var = IF e.gender = "" THEN "Vyras" ELSE e.gender,
                                 !.dept_var = IF e.department \in SeqToSet(depts) THEN e.department
                                              ELSE FirstOr(depts, <<>>)]
                i2 == on_dept_change(i1, dir)
            IN IF e.position # <<>> /\ e.position \in SeqToSet(i2.pos_values)
               THEN [i2 EXCEPT !.pos_var = e.position] ELSE i2
       ELSE LET i1 == [i0 EXCEPT !.tab_var = <<>>, !.name_var = <<>>, !.gender_var = "Vyras",
                                 !.dept_var = FirstOr(depts, <<>>)]
                i2 == on_dept_change(i1, dir)
            IN [i2 EXCEPT !.issue_date_var = IsoFormat(day)]

---------------------------------------------------------------------------
(* NewGearPage                                                             *)

\* range(14): the lines of the form
FormRows == 14

BlankLine == [code |-> <<>>, months |-> <<>>, name |-> <<>>]

BlankForm == [i \in 1..FormRows |-> BlankLine]

\* the name apply_code puts into the read-only column
AppliedName(codes, raw0) ==
    LET raw == Strip(raw0)
        cs == split_code_and_size(raw)
    IN IF raw = <<>> THEN <<>>
       ELSE IF cs.base \in DOMAIN codes
            THEN ensure_size_suffix(codes[cs.base], cs.size)
            ELSE <<>>

\* int(months_raw), 0 on ValueError
MonthsOf(months_raw) ==
    LET c == StrCell(months_raw) IN IF IntOf(c).ok THEN IntOf(c).n ELSE 0

Item(code, name, months) == [code |-> code, name |-> name, months |-> months]

\* a variant that keeps the lines without a name
RECURSIVE collect_items_all(_)
collect_items_all(rs) ==
    IF rs = <<>> THEN <<>>
    ELSE LET r == Head(rs)
             code_raw == Strip(r.code)
             months_raw == Strip(r.months)
             name == Strip(r.name)
             cs == split_code_and_size(code_raw)
         IN (IF code_raw = <<>> /\ months_raw = <<>> /\ name = <<>> THEN <<>>
             ELSE <<Item(Strip(cs.base),
                         ensure_size_suffix(strip_size_suffix(name), cs.size),
                         MonthsOf(months_raw))>>)
            \o collect_items_all(Tail(rs))

\* a variant that stores the code as typed, size included
RECURSIVE collect_items_raw(_)
collect_items_raw(rs) ==
    IF rs = <<>> THEN <<>>
    ELSE LET r == Head(rs)
             code_raw == Strip(r.code)
             months_raw == Strip(r.months)
             name == Strip(r.name)
             cs == split_code_and_size(code_raw)
         IN (IF code_raw = <<>> /\ months_raw = <<>> /\ name = <<>> THEN <<>>
             ELSE IF name = <<>> THEN <<>>
             ELSE <<Item(code_raw,
                         ensure_size_suffix(strip_size_suffix(name), cs.size),
                         MonthsOf(months_raw))>>)
            \o collect_items_raw(Tail(rs))

RECURSIVE collect_items(_)
collect_items(rs) ==
    IF rs = <<>> THEN <<>>
    ELSE LET r == Head(rs)
             code_raw == Strip(r.code)
             months_raw == Strip(r.months)
             name == Strip(r.name)
             cs == split_code_and_size(code_raw)
         IN (IF code_raw = <<>> /\ months_raw = <<>> /\ name = <<>> THEN <<>>
             ELSE IF name = <<>> THEN <<>>
             ELSE <<Item(Strip(cs.base),
                         ensure_size_suffix(strip_size_suffix(name), cs.size),
                         MonthsOf(months_raw))>>)
            \o collect_items(Tail(rs))

---------------------------------------------------------------------------
(* The values the operator and the environment supply                      *)

D1 == <<"D", "1">>
D2 == <<"D", "2">>
P1 == <<"P", "1">>
P2 == <<"P", "2">>

\* Darbuotojai.xlsx as found at start: two employees in different departments
InitialDirectory ==
    <<DirRow(<<"A">>, <<"B">>, <<"1">>, P1, D1, "Vyras"),
      DirRow(<<"E">>, <<>>, <<"2">>, P2, D2, "Moteris")>>

\* Aprangos kodai.xlsx as found at start
InitialGearFile == <<GearRow(<<"0", "5">>, <<"G">>), GearRow(<<"0", "7">>, <<"H">>)>>

\* what the operator types into a Kodas field
CodeInputs == {<<"0", "5", "-", "3", "2">>}

\* what the operator types into a Susidėvėjimas field
MonthInputs == {<<"6">>}

\* what the operator types for a new employee
TabInputs == {<<" ", "3">>}
NameInputs == {<<"X">>}

\* the days the program runs on, in order, and the days the calendar popup offers
Days == <<MkDate(2024, 6, 30), MkDate(2024, 12, 25)>>
PickDays == {MkDate(2024, 1, 31)}

\* the employees the operator selects, by Tab. Nr
SelectTabs == {<<"1">>}

\* the lines of the form the operator uses
TypedRows == {1}

\* the ledger is not grown beyond this many rows
MaxLedger == 2

InitInfo == [tab_var |-> <<>>, name_var |-> <<>>, gender_var |-> "Vyras",
             dept_var |-> <<>>, pos_var |-> <<>>, issue_date_var |-> IsoFormat(Days[1]),
             dept_values |-> <<>>, pos_values |-> <<>>]

\* AAPApp.__init__ on the files found at start
Init ==
    /\ directory = InitialDirectory
    /\ ledger = <<>>
    /\ gear_file = InitialGearFile
    /\ gear_codes = load_gear_codes_from_excel(InitialGearFile)
    /\ current_employee = NoEmployee
    /\ change_mode = FALSE
    /\ page = "EmployeeSelectPage"
    /\ closed = FALSE
    /\ info = InitInfo
    /\ rows = BlankForm
    /\ after = {}
    /\ asked_unknown = {}
    /\ today = Days[1]
    /\ ret = NoRet
    /\ inflight = <<>>
    /\ log = <<>>

\* a variant in which a callback starts while another is between its read and its write
Idle_open == ~closed

\* Tk runs one callback at a time, to completion, until the window is destroyed
Idle == ~closed /\ inflight = <<>>

\* CurrentGearPage.refresh raises AttributeError (AAPApp has no load_employee_rows)
\* unless no employee is current, so AAPApp.show never reaches tkraise
ShowCurrentGear(cur, pg) == IF cur.some THEN pg ELSE "CurrentGearPage"

\* CurrentGearPage.refresh with cur the current employee: the rows of the tree after
\* it (out: all rows are deleted, and line 1053 raises before one is inserted) and
\* whether it raised
CurrentGearRefresh(cur) ==
    [op |-> "CurrentGearPage.refresh", who |-> cur, num |-> 0, out |-> <<>>,
     raised |-> cur.some]

---------------------------------------------------------------------------
(* EmployeeSelectPage                                                      *)

\* on_next with the listbox selection e
SelectOnNext(e) ==
    /\ Idle /\ page = "EmployeeSelectPage"
    /\ IF ~e.some
       THEN ret' = NoRet /\ UNCHANGED <<current_employee, change_mode, page>>
       ELSE /\ current_employee' = e
            /\ change_mode' = FALSE
            /\ page' = ShowCurrentGear(e, page)
            /\ ret' = CurrentGearRefresh(e)
    /\ UNCHANGED <<directory, ledger, gear_file, gear_codes, closed, info, rows, after,
                   asked_unknown, today, inflight, log>>

\* on_new
SelectOnNew ==
    /\ Idle /\ page = "EmployeeSelectPage"
    /\ current_employee' = NoEmployee
    /\ change_mode' = FALSE
    /\ info' = InfoRefresh(info, directory, NoEmployee, today)
    /\ page' = "EmployeeInfoPage"
    /\ ret' = NoRet
    /\ UNCHANGED <<directory, ledger, gear_file, gear_codes, closed, rows, after,
                   asked_unknown, today, inflight, log>>

\* on_change with the listbox selection e
SelectOnChange(e) ==
    /\ Idle /\ page = "EmployeeSelectPage"
    /\ current_employee' = e
    /\ change_mode' = TRUE
    /\ info' = InfoRefresh(info, directory, e, today)
    /\ page' = "EmployeeInfoPage"
    /\ ret' = NoRet
    /\ UNCHANGED <<directory, ledger, gear_file, gear_codes, closed, rows, after,
                   asked_unknown, today, inflight, log>>

---------------------------------------------------------------------------
(* EmployeeInfoPage: the operator's edits and the buttons                  *)

InfoEdit(new) ==
    /\ Idle /\ page = "EmployeeInfoPage"
    /\ info' = new
    /\ ret' = NoRet
    /\ UNCHANGED <<directory, ledger, gear_file, gear_codes, current_employee, change_mode,
                   page, closed, rows, after, asked_unknown, today, inflight, log>>

\* tab_entry and name_entry are disabled in change mode
InfoTypeTab(t) == ~change_mode /\ InfoEdit([info EXCEPT !.tab_var = t])

InfoTypeName(n) == ~change_mode /\ InfoEdit([info EXCEPT !.name_var = n])

\* <<ComboboxSelected>> on dept_combo
InfoPickDept(d) ==
    /\ d \in SeqToSet(info.dept_values)
    /\ InfoEdit(on_dept_change([info EXCEPT !.dept_var = d], directory))

InfoPickPos(p) ==
    /\ p \in SeqToSet(info.pos_values)
    /\ InfoEdit([info EXCEPT !.pos_var = p])

\* pick_date / on_pick: the date row is shown only outside change mode
InfoPickDate(d) == ~change_mode /\ InfoEdit([info EXCEPT !.issue_date_var = IsoFormat(d)])

\* set_today, the "Šiandien" button of the date row
InfoSetToday == ~change_mode /\ InfoEdit([info EXCEPT !.issue_date_var = IsoFormat(today)])

\* the "Atgal" button
InfoBack ==
    /\ Idle /\ page = "EmployeeInfoPage"
    /\ page' = "EmployeeSelectPage"
    /\ ret' = NoRet
    /\ UNCHANGED <<directory, ledger, gear_file, gear_codes, current_employee, change_mode,
                   closed, info, rows, after, asked_unknown, today, inflight, log>>

\* the EmployeeInfo built by on_next from the form
InfoEmployee ==
    LET picked == parse_date(StrCell(info.issue_date_var))
    IN EmployeeInfo(Strip(info.tab_var), Strip(info.name_var), Strip(info.dept_var),
                    Strip(info.pos_var),
                    IF info.gender_var = "" THEN "Vyras" ELSE info.gender_var,
                    IF picked # NoDate THEN picked ELSE today)

\* a variant that asks for the id and the name only
InfoComplete_id == Strip(info.tab_var) # <<>> /\ Strip(info.name_var) # <<>>

InfoComplete ==
    /\ Strip(info.tab_var) # <<>> /\ Strip(info.name_var) # <<>>
    /\ Strip(info.dept_var) # <<>>
    /\ Strip(info.pos_var) # <<>>

\* on_next
InfoOnNext ==
    /\ Idle /\ page = "EmployeeInfoPage"
    /\ ret' = IF ~InfoComplete THEN [NoRet EXCEPT !.op = "on_next_refused"]
              ELSE IF ~change_mode THEN CurrentGearRefresh(InfoEmployee)
              ELSE NoRet
    /\ IF ~InfoComplete
       THEN UNCHANGED <<directory, current_employee, change_mode, page, rows, asked_unknown,
                        gear_codes>>
       ELSE /\ directory' = upsert(directory, InfoEmployee)
            /\ current_employee' = InfoEmployee
            /\ change_mode' = FALSE
            /\ IF change_mode
               THEN \* show("NewGearPage"): NewGearPage.refresh, then tkraise
                    /\ asked_unknown' = {}
                    /\ gear_codes' = load_gear_codes_from_excel(gear_file)
                    /\ rows' = BlankForm
                    /\ page' = "NewGearPage"
               ELSE /\ page' = ShowCurrentGear(InfoEmployee, page)
                    /\ UNCHANGED <<rows, asked_unknown, gear_codes>>
    /\ UNCHANGED <<ledger, gear_file, closed, info, after, today, inflight, log>>

---------------------------------------------------------------------------
(* NewGearPage: the operator's edits, the timer and the buttons            *)

\* the operator edits the Kodas field of line idx; on_code_change restarts the timer
on_code_change(idx, raw) ==
    /\ Idle /\ page = "NewGearPage"
    /\ rows' = [rows EXCEPT ![idx].code = raw]
    /\ after' = after \cup {idx}
    /\ ret' = NoRet
    /\ UNCHANGED <<directory, ledger, gear_file, gear_codes, current_employee, change_mode,
                   page, closed, info, asked_unknown, today, inflight, log>>

\* the 120 ms timer of line idx fires
apply_code(idx) ==
    /\ Idle /\ idx \in after
    /\ after' = after \ {idx}
    /\ rows' = [rows EXCEPT ![idx].name = AppliedName(gear_codes, rows[idx].code)]
    /\ ret' = NoRet
    /\ UNCHANGED <<directory, ledger, gear_file, gear_codes, current_employee, change_mode,
                   page, closed, info, asked_unknown, today, inflight, log>>

\* the operator edits the Susidėvėjimas field of line idx
TypeMonths(idx, raw) ==
    /\ Idle /\ page = "NewGearPage"
    /\ rows' = [rows EXCEPT ![idx].months = raw]
    /\ ret' = NoRet
    /\ UNCHANGED <<directory, ledger, gear_file, gear_codes, current_employee, change_mode,
                   page, closed, info, after, asked_unknown, today, inflight, log>>

\* focus_months: <Tab> in the Kodas field of line idx runs maybe_prompt_unknown_code;
\* answer is what the operator gives the dialog (<<>> when declined). The dialog
\* runs the event loop and stays open longer than 120 ms: the timers pending
\* when it opens fire before it returns.
focus_months(idx, answer) ==
    LET raw == Strip(rows[idx].code)
        cs == split_code_and_size(raw)
        prompted == idx \notin asked_unknown /\ raw # <<>> /\ cs.base \notin DOMAIN gear_codes
        name == Strip(answer)
        fired == IF after = {} THEN rows
                 ELSE [i \in 1..FormRows |->
                         IF i \in after
                         THEN [rows[i] EXCEPT !.name = AppliedName(gear_codes, rows[i].code)]
                         ELSE rows[i]]
    IN /\ Idle /\ page = "NewGearPage"
       /\ ret' = NoRet
       /\ IF ~prompted
          THEN UNCHANGED <<rows, after, asked_unknown, gear_file, gear_codes>>
          ELSE /\ asked_unknown' = asked_unknown \cup {idx}
               /\ after' = {}
               /\ IF answer # <<>>
                  THEN /\ gear_file' = ensure_gear_code_exists(gear_file, gear_codes, cs.base, name)
                       /\ gear_codes' = GearCodesAfterEnsure(gear_file, gear_codes, cs.base, name)
                       /\ rows' = [fired EXCEPT ![idx].name = ensure_size_suffix(name, cs.size)]
                  ELSE /\ rows' = [fired EXCEPT ![idx].name = <<>>]
                       /\ UNCHANGED <<gear_file, gear_codes>>
       /\ UNCHANGED <<directory, ledger, current_employee, change_mode, page, closed, info,
                      today, inflight, log>>

\* the "Atgal" button: show("CurrentGearPage")
NewGearBack ==
    /\ Idle /\ page = "NewGearPage"
    /\ page' = ShowCurrentGear(current_employee, page)
    /\ ret' = CurrentGearRefresh(current_employee)
    /\ UNCHANGED <<directory, ledger, gear_file, gear_codes, current_employee, change_mode,
                   closed, info, rows, after, asked_unknown, today, inflight, log>>

\* issued_date of run_generation
IssuedDate(e) == IF e.issue_date # NoDate /\ change_mode = FALSE THEN e.issue_date ELSE today

\* AAPApp.find_employee_by_tab: the employee as the directory has them
find_employee_by_tab(dir, tab_nr) ==
    LET f == find_by_tab(dir, tab_nr)
    IN IF f.found THEN RowEmployee(f.row) ELSE NoEmployee

\* an issuance as it was made: what append_issuance was called with, the number of
\* ledger rows before it and the employee's directory entry at the time
Txn(e, items, doc_no, issued_date, before) ==
    [emp |-> e, items |-> items, doc_no |-> doc_no, issued |-> issued_date, before |-> before,
     at |-> find_employee_by_tab(directory, e.tab_nr)]

\* run_generation from append_issuance on: the write, the Word document and the rest.
\* doc_ok = FALSE: generate_word_doc raises (no template), the handler ends there.
GenerationWrite(e, items, doc_no, issued_date, close_after, doc_ok) ==
    /\ ledger' = append_issuance(ledger, e, items, doc_no, issued_date)
    /\ log' = Append(log, Txn(e, items, doc_no, issued_date, Len(ledger)))
    /\ ret' = [NoRet EXCEPT !.op = "run_generation", !.num = doc_no]
    /\ IF ~doc_ok THEN UNCHANGED <<closed, current_employee, page>>
       ELSE IF close_after THEN closed' = TRUE /\ UNCHANGED <<current_employee, page>>
       ELSE /\ current_employee' = NoEmployee
            /\ page' = "EmployeeSelectPage"
            /\ UNCHANGED closed
    /\ UNCHANGED <<directory, gear_file, gear_codes, change_mode, info, rows, after,
                   asked_unknown, today>>

\* on_generate_close (close_after) / on_generate_new: run_generation as one callback
run_generation(close_after, doc_ok) ==
    LET e == current_employee
        items == collect_items(rows)
    IN /\ Idle /\ page = "NewGearPage"
       /\ IF ~e.some \/ items = <<>>
          THEN /\ ret' = [NoRet EXCEPT !.op = "run_generation_refused"]
               /\ UNCHANGED <<directory, ledger, gear_file, gear_codes, current_employee,
                              change_mode, page, closed, info, rows, after, asked_unknown,
                              today, log>>
          ELSE GenerationWrite(e, items, next_document_number(ledger), IssuedDate(e),
                               close_after, doc_ok)
       /\ UNCHANGED inflight

---------------------------------------------------------------------------
(* The environment and the repository queries                              *)

\* midnight passes
Tick ==
    /\ Idle
    /\ \E i \in 1..(Len(Days) - 1) : today = Days[i] /\ today' = Days[i + 1]
    /\ ret' = NoRet
    /\ UNCHANGED <<directory, ledger, gear_file, gear_codes, current_employee, change_mode,
                   page, closed, info, rows, after, asked_unknown, inflight, log>>

\* AAPDbRepo.current_gear_for_employee for an employee of the directory
Resolve(e) ==
    /\ Idle
    /\ LET r == current_gear_for_employee(ledger, e, today)
       IN ret' = [op |-> "current_gear_for_employee", who |-> e, num |-> 0,
                  out |-> r.out, raised |-> r.raised]
    /\ UNCHANGED <<directory, ledger, gear_file, gear_codes, current_employee, change_mode,
                   page, closed, info, rows, after, asked_unknown, today, inflight, log>>

Employees == SeqToSet(list_employees(directory))

\* The operator is slower than the 120 ms timer: a pending apply_code fires
\* before the next callback of the operator's.
OperatorTurn == after = {}

\* the employees the operator works with
Selectable == {e \in Employees : e.tab_nr \in SelectTabs}

\* the ledger after this generation has at most cap rows
Fits(cap) == Len(ledger) + Len(collect_items(rows)) <= cap

\* The wizard
Next ==
    \/ \E e \in Selectable \cup {NoEmployee} : OperatorTurn /\ SelectOnNext(e)
    \/ OperatorTurn /\ SelectOnNew
    \/ \E e \in Selectable : OperatorTurn /\ SelectOnChange(e)
    \/ \E d \in SeqToSet(info.dept_values) : OperatorTurn /\ InfoPickDept(d)
    \/ \E p \in SeqToSet(info.pos_values) : OperatorTurn /\ InfoPickPos(p)
    \/ \E d \in PickDays : OperatorTurn /\ InfoPickDate(d)
    \/ OperatorTurn /\ InfoSetToday
    \/ OperatorTurn /\ InfoBack
    \/ OperatorTurn /\ InfoOnNext
    \/ \E idx \in TypedRows, raw \in CodeInputs : OperatorTurn /\ on_code_change(idx, raw)
    \/ \E idx \in TypedRows, raw \in MonthInputs : OperatorTurn /\ TypeMonths(idx, raw)
    \/ \E idx \in TypedRows : OperatorTurn /\ focus_months(idx, <<>>)
    \/ OperatorTurn /\ NewGearBack
    \/ \E close_after \in BOOLEAN, doc_ok \in BOOLEAN :
          OperatorTurn /\ Fits(MaxLedger) /\ run_generation(close_after, doc_ok)
    \/ \E idx \in 1..FormRows : apply_code(idx)

Spec == Init /\ [][Next]_vars

---------------------------------------------------------------------------
(* run_generation in two steps: the read of the next number (line 1304)    *)
(* and the write (line 1306 on).  inflight holds the calls in between.     *)

Call(e, items, doc_no, issued_date, close_after, doc_ok) ==
    [emp |-> e, items |-> items, doc_no |-> doc_no, issued |-> issued_date,
     close_after |-> close_after, doc_ok |-> doc_ok]

\* the callback starts: up to doc_no = self.app.repo_db.next_document_number()
GenerationRead(close_after, doc_ok) ==
    LET e == current_employee
        items == collect_items(rows)
    IN /\ Idle /\ page = "NewGearPage"
       /\ e.some /\ items # <<>>
       /\ inflight' = Append(inflight, Call(e, items, next_document_number(ledger),
                                            IssuedDate(e), close_after, doc_ok))
       /\ UNCHANGED <<directory, ledger, gear_file, gear_codes, current_employee, change_mode,
                      page, closed, info, rows, after, asked_unknown, today, ret, log>>

\* the callback goes on: append_issuance, generate_word_doc and the rest
GenerationFinish ==
    /\ ~closed /\ inflight # <<>>
    /\ LET c == Head(inflight)
       IN GenerationWrite(c.emp, c.items, c.doc_no, c.issued, c.close_after, c.doc_ok)
    /\ inflight' = Tail(inflight)

NextRace ==
    \/ \E e \in Selectable : OperatorTurn /\ SelectOnChange(e)
    \/ \E d \in SeqToSet(info.dept_values) : OperatorTurn /\ InfoPickDept(d)
    \/ OperatorTurn /\ InfoOnNext
    \/ \E idx \in TypedRows, raw \in CodeInputs : OperatorTurn /\ on_code_change(idx, raw)
    \/ \E idx \in 1..FormRows : apply_code(idx)
    \/ \E close_after \in BOOLEAN, doc_ok \in BOOLEAN :
          OperatorTurn /\ Fits(MaxLedger - Len(inflight)) /\ GenerationRead(close_after, doc_ok)
    \/ GenerationFinish

SpecRace == Init /\ [][NextRace]_vars

---------------------------------------------------------------------------
(* The form of NewGearPage, all fourteen lines                             *)

\* the employee of the form: the first of the directory, through "Keisti padalinį"
FormEmployee == [RowEmployee(InitialDirectory[1]) EXCEPT !.issue_date = Days[1]]

\* the wizard after SelectOnChange and InfoOnNext for that employee
InitForm ==
    /\ directory = upsert(InitialDirectory, FormEmployee)
    /\ ledger = <<>>
    /\ gear_file = InitialGearFile
    /\ gear_codes = load_gear_codes_from_excel(InitialGearFile)
    /\ current_employee = FormEmployee
    /\ change_mode = FALSE
    /\ page = "NewGearPage"
    /\ closed = FALSE
    /\ info = InfoRefresh(InitInfo, InitialDirectory, RowEmployee(InitialDirectory[1]), Days[1])
    /\ rows = BlankForm
    /\ after = {}
    /\ asked_unknown = {}
    /\ today = Days[1]
    /\ ret = NoRet
    /\ inflight = <<>>
    /\ log = <<>>

\* a code the catalog does not hold
UnknownCode == <<"9", "9">>

\* the lines on which the operator may type the unknown code
UnknownAt == {1, 2}

\* The operator fills the lines from the top, each once: the code, then the months
LineOpen(idx) ==
    /\ rows[idx].code = <<>>
    /\ IF idx = 1 THEN TRUE ELSE rows[idx - 1].months # <<>>

LineTyped(idx) == rows[idx].code # <<>> /\ rows[idx].months = <<>>

NextForm ==
    \/ \E idx \in 1..FormRows, raw \in CodeInputs :
          OperatorTurn /\ LineOpen(idx) /\ on_code_change(idx, raw)
    \/ \E idx \in UnknownAt :
          OperatorTurn /\ LineOpen(idx) /\ on_code_change(idx, UnknownCode)
    \/ \E idx \in 1..FormRows : apply_code(idx)
    \/ \E idx \in 1..FormRows : OperatorTurn /\ LineTyped(idx) /\ focus_months(idx, <<>>)
    \/ \E idx \in 1..FormRows, raw \in MonthInputs :
          OperatorTurn /\ LineTyped(idx) /\ TypeMonths(idx, raw)
    \/ \E close_after \in BOOLEAN :
          OperatorTurn /\ Fits(FormRows) /\ run_generation(close_after, TRUE)

SpecForm == InitForm /\ [][NextForm]_vars

---------------------------------------------------------------------------
(* The repositories driven directly: DarbuotojaiRepo.upsert, the two       *)
(* AAPDbRepo calls of run_generation and current_gear_for_employee         *)

\* the employees that are moved and issued to, by Tab. Nr
IssueTabs == {<<"1">>}

\* the (department, position) pairs an employee is moved between
Contexts == {<<D1, P1>>, <<D2, P2>>}

\* the form lines of an issuance: a code, the months, the name apply_code gives the code
RepoInputs == {<<<<"0", "5">>, <<"6">>>>, <<<<"0", "5", "-", "3", "2">>, <<>>>>, <<<<"0", "7">>, <<"6">>>>}

RepoLines == {[code |-> i[1], months |-> i[2],
               name |-> AppliedName(load_gear_codes_from_excel(InitialGearFile), i[1])] : i \in RepoInputs}

RepoForms == {<<l>> : l \in RepoLines} \cup {<<l, k>> : l \in RepoLines, k \in RepoLines}

\* the issue dates (picked on the info page, or the day itself)
IssueDays == {MkDate(2024, 1, 31), MkDate(2024, 6, 30)}

\* the ledger of the repository runs is not grown beyond this many rows
RepoLedger == 2

\* EmployeeInfoPage.on_next, line 979: the employee saved with a department and position
RepoMove(tab, ctx) ==
    LET e == find_employee_by_tab(directory, tab)
    IN /\ Idle /\ e.some
       /\ directory' = upsert(directory, [e EXCEPT !.department = ctx[1], !.position = ctx[2]])
       /\ ret' = NoRet
       /\ UNCHANGED <<ledger, gear_file, gear_codes, current_employee, change_mode, page,
                      closed, info, rows, after, asked_unknown, today, inflight, log>>

\* what collect_items gives for the forms
RepoItems == {collect_items(form) : form \in RepoForms}

\* run_generation, lines 1304 to 1306, for an employee of the directory
RepoIssue(tab, items, issued_date) ==
    \E e \in {[find_employee_by_tab(directory, tab) EXCEPT !.issue_date = issued_date]},
       doc_no \in {next_document_number(ledger)} :
       /\ Idle /\ e.some /\ items # <<>>
       /\ Len(ledger) + Len(items) <= RepoLedger
       /\ ledger' = append_issuance(ledger, e, items, doc_no, issued_date)
       /\ log' = Append(log, Txn(e, items, doc_no, issued_date, Len(ledger)))
       /\ ret' = [NoRet EXCEPT !.op = "run_generation", !.num = doc_no]
       /\ UNCHANGED <<directory, gear_file, gear_codes, current_employee, change_mode, page,
                      closed, info, rows, after, asked_unknown, today, inflight>>

NextRepo ==
    \/ \E tab \in IssueTabs, ctx \in Contexts : RepoMove(tab, ctx)
    \/ \E tab \in IssueTabs, items \in RepoItems, d \in IssueDays : RepoIssue(tab, items, d)
    \/ \E e \in Employees : Resolve(e)
    \/ Tick

SpecRepo == Init /\ [][NextRepo]_vars

---------------------------------------------------------------------------
(* next_document_number on ledgers that hold rows not written by the program *)

\* Numeris cells of such rows: empty, blank, text, numbers as numbers and as text
NumerisInputs == {NoneCell, StrCell(<<>>), StrCell(<<" ">>), StrCell(<<"x">>),
                  IntCell(3), StrCell(<<"7">>), StrCell(<<" ", "4">>)}

OtherRow(v) == LedgerRow(v, <<"X">>, <<"9">>, D1, P1, "Vyras", <<>>, <<>>, NoneCell, NoneCell)

OtherSheets == {<<>>} \cup {<<OtherRow(v)>> : v \in NumerisInputs}
               \cup {<<OtherRow(v), OtherRow(w)>> : v \in NumerisInputs, w \in NumerisInputs}

\* the document numbers append_issuance is called with
DocInputs == {1, 5}

\* the ledger of these runs is not grown beyond this many rows
DocRows == 3

InitDocNo ==
    /\ ledger \in OtherSheets
    /\ directory = InitialDirectory
    /\ gear_file = InitialGearFile
    /\ gear_codes = load_gear_codes_from_excel(InitialGearFile)
    /\ current_employee = NoEmployee
    /\ change_mode = FALSE
    /\ page = "EmployeeSelectPage"
    /\ closed = FALSE
    /\ info = InitInfo
    /\ rows = BlankForm
    /\ after = {}
    /\ asked_unknown = {}
    /\ today = Days[1]
    /\ ret = NoRet
    /\ inflight = <<>>
    /\ log = <<>>

\* AAPDbRepo.append_issuance with a document number of the caller's
DocAppend(doc_no) ==
    LET items == <<Item(<<"0", "5">>, <<"G">>, 6)>>
    IN /\ Idle /\ Len(ledger) < DocRows
       /\ ledger' = append_issuance(ledger, FormEmployee, items, doc_no, today)
       /\ log' = Append(log, Txn(FormEmployee, items, doc_no, today, Len(ledger)))
       /\ ret' = NoRet
       /\ UNCHANGED <<directory, gear_file, gear_codes, current_employee, change_mode, page,
                      closed, info, rows, after, asked_unknown, today, inflight>>

\* AAPDbRepo.next_document_number
DocNext ==
    /\ Idle
    /\ ret' = [NoRet EXCEPT !.op = "next_document_number", !.num = next_document_number(ledger)]
    /\ UNCHANGED <<directory, ledger, gear_file, gear_codes, current_employee, change_mode,
                   page, closed, info, rows, after, asked_unknown, today, inflight, log>>

NextDocNo ==
    \/ \E doc_no \in DocInputs : DocAppend(doc_no)
    \/ DocNext

SpecDocNo == InitDocNo /\ [][NextDocNo]_vars

---------------------------------------------------------------------------
(* add_months and the size-suffix functions called on their own            *)

\* the start dates: ends and beginnings of months, in leap, common and century years
StartYears == {1999, 2023, 2024, 2099}
StartDates == {MkDate(y, m, d) : y \in StartYears, m \in 1..12, d \in {1, 28, 29, 30, 31}}
              \cap {dt \in [y : StartYears, m : 1..12, d : 1..31] : ValidDate(dt.y, dt.m, dt.d)}

\* months are added and subtracted up to this many
MaxShift == 14

\* the display names: texts of up to NameLen of these characters
NameChars == {"G", " ", "(", ")"}
NameLen == 4
NameTexts == UNION {[1..n -> NameChars] : n \in 0..NameLen}

\* a call that has not returned yet: the function and its arguments
FnCall(op, num, arg) == [op |-> op, who |-> NoEmployee, num |-> num, out |-> <<arg>>,
                         raised |-> FALSE]

FnCalls == {FnCall("add_months", n, start) : start \in StartDates, n \in (0 - MaxShift)..MaxShift}
           \cup {FnCall("round_trip", 0, x) : x \in NameTexts}

InitFn ==
    /\ ret \in FnCalls
    /\ directory = InitialDirectory
    /\ ledger = <<>>
    /\ gear_file = InitialGearFile
    /\ gear_codes = load_gear_codes_from_excel(InitialGearFile)
    /\ current_employee = NoEmployee
    /\ change_mode = FALSE
    /\ page = "EmployeeSelectPage"
    /\ closed = FALSE
    /\ info = InitInfo
    /\ rows = BlankForm
    /\ after = {}
    /\ asked_unknown = {}
    /\ today = Days[1]
    /\ inflight = <<>>
    /\ log = <<>>

\* add_months(start, n) returns: out becomes <<start, result>>
AddMonths ==
    /\ Idle /\ ret.op = "add_months" /\ Len(ret.out) = 1
    /\ ret' = [ret EXCEPT !.out = <<ret.out[1], add_months(ret.out[1], ret.num)>>]
    /\ UNCHANGED <<directory, ledger, gear_file, gear_codes, current_employee, change_mode,
                   page, closed, info, rows, after, asked_unknown, today, inflight, log>>

\* strip_size_suffix(ensure_size_suffix(strip_size_suffix(x), "32")) returns
RoundTrip ==
    /\ Idle /\ ret.op = "round_trip" /\ Len(ret.out) = 1
    /\ ret' = [ret EXCEPT !.out =
                 <<ret.out[1],
                   strip_size_suffix(ensure_size_suffix(strip_size_suffix(ret.out[1]),
                                                        <<"3", "2">>))>>]
    /\ UNCHANGED <<directory, ledger, gear_file, gear_codes, current_employee, change_mode,
                   page, closed, info, rows, after, asked_unknown, today, inflight, log>>

NextFn ==
    \/ AddMonths
    \/ RoundTrip

SpecFn == InitFn /\ [][NextFn]_vars

---------------------------------------------------------------------------
(* NewGearPage with the "Naujas kodas" dialog answered                     *)

\* the lines the operator types on
NameLines == {1, 2}

\* the codes typed: known and unknown, with and without a size
SizedCodes == {<<"0", "5", "-", "3", "2">>, <<"9", "9", "-", "3", "2">>, <<"9", "9">>,
               <<"9", "8", "-", "L">>}

\* what askstring returns: None or "" (given as <<>>), a blank, a name,
\* a name that carries a size suffix of its own
Answers == {<<>>, <<" ">>, <<"X">>,
            <<"X", " ", "(", "4", "0", " ", "d", "y", "d", "i", "s", ")">>}

NextNames ==
    \/ \E idx \in NameLines, raw \in SizedCodes : OperatorTurn /\ on_code_change(idx, raw)
    \/ \E idx \in NameLines : apply_code(idx)
    \/ \E idx \in NameLines, answer \in Answers : OperatorTurn /\ focus_months(idx, answer)
    \/ \E idx \in NameLines, raw \in MonthInputs : OperatorTurn /\ TypeMonths(idx, raw)
    \/ \E close_after \in BOOLEAN : OperatorTurn /\ run_generation(close_after, TRUE)

SpecNames == InitForm /\ [][NextNames]_vars

---------------------------------------------------------------------------
(* The gear-code catalog under registration                                *)

\* Aprangos kodai.xlsx as the program finds it: as delivered, and with a row
\* whose name cell the operator left empty
CatalogFiles == {InitialGearFile,
                 <<GearRow(<<"0", "5">>, <<"G">>), GearRow(<<"0", "8">>, <<>>)>>}

\* the codes and names registration is called with
RegCodes == {<<"0", "5">>, <<"0", "8">>, <<"9", "9">>, <<" ", "9", "9">>, <<>>}
RegNames == {<<"X">>, <<"Y">>, <<>>,
             <<"X", " ", "(", "3", "2", " ", "d", "y", "d", "i", "s", ")">>}

InitCatalog ==
    /\ gear_file \in CatalogFiles
    /\ gear_codes = load_gear_codes_from_excel(gear_file)
    /\ ret = NoRet
    /\ directory = InitialDirectory
    /\ ledger = <<>>
    /\ current_employee = NoEmployee
    /\ change_mode = FALSE
    /\ page = "EmployeeSelectPage"
    /\ closed = FALSE
    /\ info = InitInfo
    /\ rows = BlankForm
    /\ after = {}
    /\ asked_unknown = {}
    /\ today = Days[1]
    /\ inflight = <<>>
    /\ log = <<>>

\* AAPApp.ensure_gear_code_exists(code, name)
EnsureGearCode(code, name) ==
    /\ Idle
    /\ gear_file' = ensure_gear_code_exists(gear_file, gear_codes, code, name)
    /\ gear_codes' = GearCodesAfterEnsure(gear_file, gear_codes, code, name)
    /\ ret' = [op |-> "ensure_gear_code_exists", who |-> NoEmployee, num |-> 0,
               out |-> <<code, name>>, raised |-> FALSE]
    /\ UNCHANGED <<directory, ledger, current_employee, change_mode, page, closed, info,
                   rows, after, asked_unknown, today, inflight, log>>

\* add_gear_code_to_excel(path, code, name) on its own: the file is written,
\* AAPApp.gear_codes is not reloaded
AddGearCode(code, name) ==
    /\ Idle
    /\ gear_file' = add_gear_code_to_excel(gear_file, code, name)
    /\ ret' = [op |-> "add_gear_code_to_excel", who |-> NoEmployee, num |-> 0,
               out |-> <<code, name>>, raised |-> FALSE]
    /\ UNCHANGED <<directory, ledger, gear_codes, current_employee, change_mode, page, closed,
                   info, rows, after, asked_unknown, today, inflight, log>>

NextCatalog ==
    \/ \E code \in RegCodes, name \in RegNames : EnsureGearCode(code, name)
    \/ \E code \in RegCodes, name \in RegNames : AddGearCode(code, name)

SpecCatalog == InitCatalog /\ [][NextCatalog]_vars

---------------------------------------------------------------------------
(* AAP_DB.xlsx with rows edited by hand                                    *)

\* a row of employee 1 in D1/P1 with the cells Apranga, Išduota, Susidėvėjimas
HandRow(apranga, isduota, men) ==
    LedgerRow(IntCell(1), <<"A", " ", "B">>, <<"1">>, D1, P1, "Vyras", <<"0", "5">>,
              apranga, isduota, men)

\* rows as written by the program, rows whose date is no date or is missing,
\* rows whose wear period is no number, and a row with neither
HandRows == {HandRow(<<"G">>, StrCell(IsoFormat(MkDate(2024, 1, 31))), IntCell(6)),
             HandRow(<<"H">>, StrCell(IsoFormat(MkDate(2024, 3, 1))), StrCell(<<"6">>)),
             HandRow(<<"G">>, StrCell(<<"x">>), IntCell(6)),
             HandRow(<<"H">>, NoneCell, IntCell(6)),
             HandRow(<<"G">>, StrCell(IsoFormat(MkDate(2024, 3, 1))), StrCell(<<"x">>)),
             HandRow(<<"H">>, StrCell(IsoFormat(MkDate(2024, 1, 31))), StrCell(<<"6", ".", "5">>)),
             HandRow(<<"H">>, StrCell(<<"x">>), StrCell(<<"x">>))}

\* the rows of the sheet when the program starts
HistoryRows == 2

HandSheets == UNION {[1..n -> HandRows] : n \in 0..HistoryRows}

InitHistory ==
    /\ ledger \in HandSheets
    /\ ret = NoRet
    /\ directory = InitialDirectory
    /\ gear_file = InitialGearFile
    /\ gear_codes = load_gear_codes_from_excel(InitialGearFile)
    /\ current_employee = NoEmployee
    /\ change_mode = FALSE
    /\ page = "EmployeeSelectPage"
    /\ closed = FALSE
    /\ info = InitInfo
    /\ rows = BlankForm
    /\ after = {}
    /\ asked_unknown = {}
    /\ today = Days[1]
    /\ inflight = <<>>
    /\ log = <<>>

NextHistory ==
    \/ \E e \in Employees : Resolve(e)
    \/ Tick

SpecHistory == InitHistory /\ [][NextHistory]_vars

---------------------------------------------------------------------------
(* Darbuotojai.xlsx under upsert                                           *)

\* the EmployeeInfo values upsert is called with: ids in the directory and
\* not, an id with blanks around it, no id; names of one and of two words
\* with blanks between, no name
UpsertTabs == {<<"1">>, <<" ", "2">>, <<"3">>, <<>>}
UpsertNames == {<<"X">>, <<"X", " ", " ", "Y">>, <<>>}
UpsertInputs == {EmployeeInfo(t, n, c[1], c[2], "Vyras", NoDate) :
                 t \in UpsertTabs, n \in UpsertNames, c \in Contexts}

\* DarbuotojaiRepo.upsert(e)
Upsert(e) ==
    /\ Idle
    /\ directory' = upsert(directory, e)
    /\ ret' = [op |-> "upsert", who |-> e, num |-> 0, out |-> <<>>, raised |-> FALSE]
    /\ UNCHANGED <<ledger, gear_file, gear_codes, current_employee, change_mode, page, closed,
                   info, rows, after, asked_unknown, today, inflight, log>>

NextPeople == \E e \in UpsertInputs : Upsert(e)

SpecPeople == Init /\ [][NextPeople]_vars

---------------------------------------------------------------------------
(* The wizard with a new employee typed in, over directories that lack a   *)
(* department or a position                                                *)

\* Darbuotojai.xlsx as found at start: as delivered, with the one row's
\* Pareigos cell empty, with its Padalinys cell empty
InputDirectories ==
    {InitialDirectory,
     <<DirRow(<<"A">>, <<"B">>, <<"1">>, <<>>, D1, "Vyras")>>,
     <<DirRow(<<"A">>, <<"B">>, <<"1">>, P1, <<>>, "Vyras")>>}

\* the rows one session of the wizard adds to the ledger
InputLedger == 1

InitInput ==
    /\ directory \in InputDirectories
    /\ ledger = <<>>
    /\ gear_file = InitialGearFile
    /\ gear_codes = load_gear_codes_from_excel(InitialGearFile)
    /\ current_employee = NoEmployee
    /\ change_mode = FALSE
    /\ page = "EmployeeSelectPage"
    /\ closed = FALSE
    /\ info = InitInfo
    /\ rows = BlankForm
    /\ after = {}
    /\ asked_unknown = {}
    /\ today = Days[1]
    /\ ret = NoRet
    /\ inflight = <<>>
    /\ log = <<>>

NextInput ==
    \/ \E e \in Selectable \cup {NoEmployee} : OperatorTurn /\ SelectOnNext(e)
    \/ OperatorTurn /\ SelectOnNew
    \/ \E e \in Selectable : OperatorTurn /\ SelectOnChange(e)
    \/ \E t \in TabInputs \cup {<<>>} : OperatorTurn /\ InfoTypeTab(t)
    \/ \E n \in NameInputs \cup {<<>>} : OperatorTurn /\ InfoTypeName(n)
    \/ \E d \in SeqToSet(info.dept_values) : OperatorTurn /\ InfoPickDept(d)
    \/ \E p \in SeqToSet(info.pos_values) : OperatorTurn /\ InfoPickPos(p)
    \/ \E d \in PickDays : OperatorTurn /\ InfoPickDate(d)
    \/ OperatorTurn /\ InfoBack
    \/ OperatorTurn /\ InfoOnNext
    \/ \E idx \in TypedRows, raw \in CodeInputs : OperatorTurn /\ on_code_change(idx, raw)
    \/ \E idx \in TypedRows : apply_code(idx)
    \/ OperatorTurn /\ Fits(InputLedger) /\ run_generation(FALSE, TRUE)

SpecInput == InitInput /\ [][NextInput]_vars

---------------------------------------------------------------------------
(* NewGearPage with the operator as fast as the 120 ms timer               *)

\* the codes typed over one another
DebounceCodes == {<<"0", "5">>, <<"0", "7">>, <<"9", "9", "-", "3", "2">>, <<"-", "3", "2">>}

NextDebounce ==
    \/ \E idx \in NameLines, raw \in DebounceCodes : on_code_change(idx, raw)
    \/ \E idx \in NameLines : apply_code(idx)
    \/ \E idx \in NameLines, answer \in Answers : focus_months(idx, answer)
    \/ \E idx \in NameLines, raw \in MonthInputs : TypeMonths(idx, raw)
    \/ \E close_after \in BOOLEAN : run_generation(close_after, TRUE)

SpecDebounce == InitForm /\ [][NextDebounce]_vars

---------------------------------------------------------------------------
(* Properties                                                              *)

\* the Numeris values of a sheet that are integers: numbers, and text that is
\* a decimal number once the surrounding whitespace is removed
NumerisOf(sheet) ==
    {n \in 0..99 : \E i \in 1..Len(sheet) :
        \/ sheet[i].Numeris = IntCell(n)
        \/ sheet[i].Numeris.k = "str" /\ Strip(sheet[i].Numeris.s) = ZeroPad(n, 1)}

\* C1: next_document_number returns 1 on a ledger with no rows and otherwise
\* the greatest Numeris that parses as an integer, plus 1; blank, None and
\* non-numeric values count as absent, so that with a batch numbered 5 and
\* otherwise unparsable values it returns 6.
C1_NextDocumentNumber ==
    ret.op = "next_document_number" =>
        /\ ledger = <<>> => ret.num = 1
        /\ NumerisOf(ledger) = {} => ret.num = 1
        /\ NumerisOf(ledger) # {} =>
              ret.num = (CHOOSE n \in NumerisOf(ledger) : \A m \in NumerisOf(ledger) : m <= n) + 1
        /\ NumerisOf(ledger) = {5} => ret.num = 6

\* next_document_number has answered 6 on a ledger that holds a batch
\* numbered 5 next to a row whose Numeris is text and a row without one
C1_Witness ==
    /\ ret.op = "next_document_number" /\ ret.num = 6
    /\ \E i \in 1..Len(ledger) : ledger[i].Numeris = IntCell(5)
    /\ \E i \in 1..Len(ledger) : ledger[i].Numeris = StrCell(<<"x">>)
    /\ \E i \in 1..Len(ledger) : ledger[i].Numeris = NoneCell

\* the ledger position of the first row of the t-th issuance
RowOf(t) == Len(ledger) - log[t].before - Len(log[t].items) + 1

\* C2: every issuance gets a positive document number greater than every
\* document number of the rows that were in the ledger when it started, so
\* no two issuances have the same number.
C2_FreshDocumentNumber ==
    \A t \in 1..Len(log) :
        /\ log[t].doc_no > 0
        /\ ledger[RowOf(t)].Numeris = IntCell(log[t].doc_no)
        /\ \A i \in (Len(ledger) - log[t].before + 1)..Len(ledger) :
              ledger[i].Numeris.k = "int" /\ ledger[i].Numeris.n < log[t].doc_no
        /\ \A s \in 1..(t - 1) : log[s].doc_no < log[t].doc_no

\* two issuances were made one after the other, the second numbered 2
C2_Witness == Len(log) = 2 /\ log[1].doc_no = 1 /\ log[2].doc_no = 2

C4_LedgerImmutable ==
    /\ Len(ledger) = IF log = <<>> THEN 0
                     ELSE log[Len(log)].before + Len(log[Len(log)].items)
    /\ \A t \in 1..Len(log) :
          /\ log[t].before = IF t = 1 THEN 0 ELSE log[t - 1].before + Len(log[t - 1].items)
          /\ log[t].emp.department = log[t].at.department
          /\ log[t].emp.position = log[t].at.position
          /\ \A k \in 1..Len(log[t].items) :
                ledger[RowOf(t) + k - 1] =
                    LedgerRow(IntCell(log[t].doc_no), log[t].emp.name, log[t].emp.tab_nr,
                              log[t].at.department, log[t].at.position, log[t].emp.gender,
                              log[t].items[k].code, log[t].items[k].name,
                              StrCell(IsoFormat(log[t].issued)), IntCell(log[t].items[k].months))

\* a row issued to an employee in one department is in the ledger below a
\* later row, while the directory has the employee in another department
C4_Witness ==
    /\ Len(log) = 2
    /\ \E i \in 2..Len(ledger) :
          LET now == find_employee_by_tab(directory, ledger[i].TabNr)
          IN now.some /\ now.department # ledger[i].Padalinys

\* the form lines that have a name
Named == {i \in 1..FormRows : Strip(rows[i].name) # <<>>}

\* C5: a step that writes to the ledger puts between 1 and 14 rows on top of
\* it, one for each form line that has a name, in the order of the lines, all
\* with one document number and one issue date; with no such line no step
\* writes to the ledger.
C5_BatchPerForm ==
    [][LET k == Len(ledger') - Len(ledger)
       IN /\ k >= 0
          /\ (page = "NewGearPage" /\ Named = {}) => ledger' = ledger
          /\ k > 0 =>
               /\ k = Cardinality(Named) /\ k >= 1 /\ k <= 14
               /\ SubSeq(ledger', k + 1, Len(ledger')) = ledger
               /\ \A i \in 1..k :
                     /\ ledger'[i].Numeris = ledger'[1].Numeris
                     /\ ledger'[i].Isduota = ledger'[1].Isduota
                     /\ \E l \in Named :
                           /\ Cardinality({j \in Named : j <= l}) = i
                           /\ strip_size_suffix(ledger'[i].Apranga)
                                = strip_size_suffix(Strip(rows[l].name))]_vars

\* one issuance has written 14 rows
C5_Witness == Len(log) = 1 /\ Len(log[1].items) = 14 /\ Len(ledger) = 14

\* the resolver has returned a list
Resolved == ret.op = "current_gear_for_employee" /\ ~ret.raised

\* the ledger rows, by position, whose Tab. Nr, department and position are
\* those of the employee the resolver was asked about
InContext ==
    {i \in 1..Len(ledger) : /\ ledger[i].TabNr = ret.who.tab_nr
                            /\ ledger[i].Padalinys = ret.who.department
                            /\ ledger[i].Pareigos = ret.who.position}

\* base item name of a ledger row and of an entry of the result
BaseOf(i) == strip_size_suffix(Strip(ledger[i].Apranga))
EntryBase(x) == strip_size_suffix(Strip(x.Apranga))

IssuedOn(i) == parse_date(ledger[i].Isduota)

\* the entry x was made from ledger row i
TakenFrom(x, i) ==
    /\ x.Apranga = ledger[i].Apranga
    /\ x.Kodas = ledger[i].Kodas
    /\ x.Isduota = IssuedOn(i)
    /\ IntCell(x.Men) = ledger[i].Susidevejimas

\* C6: every entry of the resolver's result is made from a ledger row whose
\* Tab. Nr, department and position equal those of the employee asked about,
\* who is the employee as the directory has them now; rows issued under
\* another department or position give no entry.
C6_OnlyCurrentContext ==
    Resolved =>
        /\ ret.who = find_employee_by_tab(directory, ret.who.tab_nr)
        /\ \A k \in 1..Len(ret.out) : \E i \in InContext : TakenFrom(ret.out[k], i)

\* the resolver has answered for an employee who has a row from before a
\* move and a row of another item from after it
C6_Witness ==
    /\ Resolved /\ Len(ret.out) = 1
    /\ \E i \in InContext : \E j \in 1..Len(ledger) :
          /\ ledger[j].TabNr = ret.who.tab_nr
          /\ ledger[j].Padalinys # ret.who.department
          /\ BaseOf(j) # BaseOf(i)
          /\ i < j

\* C7: the result has exactly one entry for each base item name among the
\* rows of the employee's department and position, and the entry's issue
\* date is the latest of the rows of that name.
C7_OnePerBaseLatest ==
    Resolved =>
        /\ \A k \in 1..Len(ret.out) : \A l \in 1..Len(ret.out) :
              k # l => EntryBase(ret.out[k]) # EntryBase(ret.out[l])
        /\ {EntryBase(ret.out[k]) : k \in 1..Len(ret.out)} = {BaseOf(i) : i \in InContext}
        /\ \A k \in 1..Len(ret.out) :
              /\ \E i \in InContext : /\ BaseOf(i) = EntryBase(ret.out[k])
                                      /\ IssuedOn(i) = ret.out[k].Isduota
              /\ \A i \in InContext :
                    BaseOf(i) = EntryBase(ret.out[k]) =>
                        Ordinal(IssuedOn(i)) <= Ordinal(ret.out[k].Isduota)

\* one entry stands for two rows of one base name that differ in size suffix
\* and in issue date, the later-dated row lying below the other
C7_Witness ==
    /\ Resolved /\ Len(ret.out) = 1
    /\ \E i \in InContext : \E j \in InContext :
          /\ i < j
          /\ ledger[i].Apranga # ledger[j].Apranga
          /\ Ordinal(IssuedOn(i)) < Ordinal(IssuedOn(j))
          /\ ret.out[1].Isduota = IssuedOn(j)

\* the rows an entry ties with: those of its base name and its issue date
Tied(x) == {i \in InContext : BaseOf(i) = EntryBase(x) /\ IssuedOn(i) = x.Isduota}

\* C8: of the rows of a base name that share the latest issue date the
\* resolver keeps the one it sees first, which is the topmost in the sheet.
C8_FirstSeenWins ==
    Resolved =>
        \A k \in 1..Len(ret.out) :
            /\ Tied(ret.out[k]) # {}
            /\ TakenFrom(ret.out[k],
                         CHOOSE i \in Tied(ret.out[k]) : \A j \in Tied(ret.out[k]) : i <= j)

\* C8 as stated: the resolver keeps the one it sees last
C8_LastSeenWins ==
    Resolved =>
        \A k \in 1..Len(ret.out) :
            /\ Tied(ret.out[k]) # {}
            /\ TakenFrom(ret.out[k],
                         CHOOSE i \in Tied(ret.out[k]) : \A j \in Tied(ret.out[k]) : j <= i)

\* two rows of one base name and one date, told apart by the size suffix:
\* the entry is made from the upper one
C8_Witness ==
    /\ Resolved
    /\ \E k \in 1..Len(ret.out) : \E i \in Tied(ret.out[k]) : \E j \in Tied(ret.out[k]) :
          /\ i < j
          /\ ledger[i].Apranga # ledger[j].Apranga
          /\ TakenFrom(ret.out[k], i)

\* C9: every entry has a change date, add_months of its issue date and wear
\* period, and the days from today to it; a wear period of 0 gives the issue
\* date itself.
C9_WearOutAlways ==
    Resolved =>
        \A k \in 1..Len(ret.out) :
            LET x == ret.out[k]
            IN /\ \E i \in InContext : TakenFrom(x, i)
               /\ x.KeistiIki # NoDate /\ ~x.LikeNone
               /\ x.KeistiIki = add_months(x.Isduota, x.Men)
               /\ x.Men = 0 => x.KeistiIki = x.Isduota
               /\ (x.Men = 6 /\ x.Isduota = MkDate(2024, 1, 31)) => x.KeistiIki = MkDate(2024, 7, 31)
               /\ (x.Men = 6 /\ x.Isduota = MkDate(2024, 6, 30)) => x.KeistiIki = MkDate(2024, 12, 30)
               /\ x.Like = Ordinal(x.KeistiIki) - Ordinal(today)

\* C9 as stated: no change date and no remaining days for a wear period of 0 or less
C9_AbsentWithoutWear ==
    Resolved =>
        \A k \in 1..Len(ret.out) :
            LET x == ret.out[k]
            IN IF x.Men > 0
               THEN /\ x.KeistiIki = add_months(x.Isduota, x.Men)
                    /\ ~x.LikeNone /\ x.Like = Ordinal(x.KeistiIki) - Ordinal(today)
               ELSE x.KeistiIki = NoDate /\ x.LikeNone

\* an entry with wear period 0, due on its issue date, next to one with 6 months
C9_Witness ==
    /\ Resolved
    /\ \E k \in 1..Len(ret.out) : \E l \in 1..Len(ret.out) :
          /\ ret.out[k].Men = 0 /\ ret.out[k].KeistiIki = ret.out[k].Isduota
          /\ ret.out[k].Like < 0
          /\ ret.out[l].Men = 6 /\ ret.out[l].KeistiIki = MkDate(2024, 12, 30)

\* C10: the result is in ascending order of remaining days, an entry without
\* a change date after every entry with one.
C10_AscendingRemaining ==
    Resolved =>
        \A k \in 1..Len(ret.out) : \A l \in 1..Len(ret.out) :
            k < l => /\ ret.out[k].LikeNone => ret.out[l].LikeNone
                     /\ (~ret.out[k].LikeNone /\ ~ret.out[l].LikeNone)
                           => ret.out[k].Like <= ret.out[l].Like

\* two entries with different remaining days, the one made from the lower
\* row of the sheet first
C10_Witness ==
    /\ Resolved /\ Len(ret.out) = 2
    /\ ret.out[1].Like < ret.out[2].Like
    /\ \E i \in InContext : \E j \in InContext :
          i < j /\ TakenFrom(ret.out[2], i) /\ TakenFrom(ret.out[1], j)

\* C11: when the page of the current gear has been asked for, every entry of
\* the employee's current gear whose remaining days are less than 7 is a row
\* of the table marked as due, and no other row is marked.
C11_DueFlagged ==
    ret.op = "CurrentGearPage.refresh" =>
        LET res == current_gear_for_employee(ledger, ret.who, today)
            due == {k \in 1..Len(res.out) : ~res.out[k].LikeNone /\ res.out[k].Like < 7}
        IN /\ \A k \in due : \E r \in 1..Len(ret.out) :
                 ret.out[r].Apranga = res.out[k].Apranga /\ ret.out[r].warn
           /\ \A r \in 1..Len(ret.out) :
                 ret.out[r].warn => \E k \in due : ret.out[r].Apranga = res.out[k].Apranga

\* C12: an item issued on 2024-06-30 for 6 months has the change date
\* 2024-12-30 (the day of the month is kept), so that on 2024-12-25 it has 5
\* days left, which is fewer than 7.
C12_WearOutDec30 ==
    Resolved =>
        \A k \in 1..Len(ret.out) :
            (ret.out[k].Isduota = MkDate(2024, 6, 30) /\ ret.out[k].Men = 6) =>
                /\ ret.out[k].KeistiIki = MkDate(2024, 12, 30)
                /\ today = MkDate(2024, 12, 25) => (ret.out[k].Like = 5 /\ ret.out[k].Like < 7)

\* C12 as stated: the change date is 2024-12-31 and 6 days are left on 2024-12-25
C12_WearOutDec31 ==
    Resolved =>
        \A k \in 1..Len(ret.out) :
            (ret.out[k].Isduota = MkDate(2024, 6, 30) /\ ret.out[k].Men = 6) =>
                /\ ret.out[k].KeistiIki = MkDate(2024, 12, 31)
                /\ today = MkDate(2024, 12, 25) => (ret.out[k].Like = 6 /\ ret.out[k].Like < 7)

\* the resolver has answered on 2024-12-25 with such an item
C12_Witness ==
    /\ Resolved /\ today = MkDate(2024, 12, 25)
    /\ \E k \in 1..Len(ret.out) :
          /\ ret.out[k].Isduota = MkDate(2024, 6, 30) /\ ret.out[k].Men = 6
          /\ ret.out[k].Like = 5

\* the days of a month by the Gregorian rules
GregorianDays(y, m) ==
    IF m \in {4, 6, 9, 11} THEN 30
    ELSE IF m # 2 THEN 31
    ELSE IF (y % 4 = 0 /\ y % 100 # 0) \/ y % 400 = 0 THEN 29
    ELSE 28

\* C13: add_months(start, n) is n calendar months after start, n negative
\* included: year * 12 + month grows by n, and the day is the smaller of
\* start's day and the number of days of the month arrived at.
C13_AddMonths ==
    (ret.op = "add_months" /\ Len(ret.out) = 2) =>
        LET start == ret.out[1]
            r == ret.out[2]
        IN /\ r.m \in 1..12
           /\ r.y * 12 + r.m = start.y * 12 + start.m + ret.num
           /\ r.d = IF start.d < GregorianDays(r.y, r.m) THEN start.d
                    ELSE GregorianDays(r.y, r.m)
           /\ (start = MkDate(2024, 1, 31) /\ ret.num = 1) => r = MkDate(2024, 2, 29)
           /\ (start = MkDate(2023, 1, 31) /\ ret.num = 1) => r = MkDate(2023, 2, 28)

\* two months after 2099-12-31: the last day of February of a century year
C13_Witness ==
    /\ ret.op = "add_months" /\ ret.num = 2 /\ Len(ret.out) = 2
    /\ ret.out[1] = MkDate(2099, 12, 31)
    /\ ret.out[2] = MkDate(2100, 2, 28)

\* a name ends in a parenthesized group
EndsInGroup(x) == Contains(x, "(") /\ x # <<>> /\ x[Len(x)] = ")"

\* C15: strip_size_suffix, ensure_size_suffix with "32", strip_size_suffix
\* give back a display name without its surrounding blanks, so a name that
\* has none and does not end in a parenthesized group comes back unchanged.
C15_RoundTrip ==
    (ret.op = "round_trip" /\ Len(ret.out) = 2 /\ ~EndsInGroup(Strip(ret.out[1])))
        => /\ ret.out[2] = Strip(ret.out[1])
           /\ Strip(ret.out[1]) = ret.out[1] => ret.out[2] = ret.out[1]

\* C15 as stated: every name that does not end in a parenthesized group
\* comes back unchanged
C15_RoundTripAll ==
    (ret.op = "round_trip" /\ Len(ret.out) = 2 /\ ~EndsInGroup(ret.out[1]))
        => ret.out[2] = ret.out[1]

\* the round trip of a name that holds an opening parenthesis
C15_Witness ==
    /\ ret.op = "round_trip" /\ Len(ret.out) = 2
    /\ ret.out[1] = <<"G", "(", "G">>
    /\ ret.out[2] = <<"G", "(", "G">>

\* the code of form line l, split at the first "-"
LineCode(l) == split_code_and_size(Strip(rows[l].code))

\* the lines typed with a size-qualified code
Sized == {l \in 1..FormRows : LineCode(l).size # <<>>}

\* name followed by " (<size> dydis)"
WithSize(name, size) == Strip(name \o <<" ", "(">> \o size \o SizeWord)

\* C14: the ledger row written for a form line with the code BASE-SIZE has
\* BASE alone as its item code and "<base name> (<SIZE> dydis)" as its
\* display name, the base name being the line's name without a size suffix
\* and, when it is not empty, the catalog's name for BASE; a catalog entry made
\* when the operator names an unknown code is keyed by BASE and holds the
\* name without a size suffix, the line showing that name with the suffix.
C14_SizeInName ==
    [][/\ Len(ledger') > Len(ledger) =>
            \A l \in Named \cap Sized :
                LET row == ledger'[Cardinality({j \in Named : j <= l})]
                IN /\ row.Kodas = LineCode(l).base
                   /\ ~Contains(row.Kodas, "-")
                   /\ row.Apranga = WithSize(strip_size_suffix(Strip(rows[l].name)),
                                              LineCode(l).size)
                   /\ strip_size_suffix(row.Apranga) # <<>> =>
                         /\ LineCode(l).base \in DOMAIN gear_codes
                         /\ row.Apranga = WithSize(gear_codes[LineCode(l).base],
                                                   LineCode(l).size)
       /\ gear_file' # gear_file =>
            \E l \in 1..FormRows :
                LET new == gear_file'[Len(gear_file')]
                IN /\ gear_file' = Append(gear_file, new)
                   /\ new.code = LineCode(l).base
                   /\ ~EndsInGroup(new.name) /\ new.name # <<>>
                   /\ gear_codes' = [c \in DOMAIN gear_codes \cup {new.code} |->
                                        IF c = new.code THEN new.name ELSE gear_codes[c]]
                   /\ strip_size_suffix(rows'[l].name) = new.name
                   /\ LineCode(l).size # <<>> =>
                         rows'[l].name = WithSize(new.name, LineCode(l).size)]_vars

\* known "05-32" and unknown "99-32" named "X (40 dydis)" were issued together:
\* rows 05 "G (32 dydis)" and 99 "X (32 dydis)", catalog entry 99 "X"
C14_Witness ==
    /\ Len(ledger) = 2
    /\ ledger[1].Kodas = <<"0", "5">>
    /\ ledger[1].Apranga = <<"G", " ", "(", "3", "2", " ", "d", "y", "d", "i", "s", ")">>
    /\ ledger[2].Kodas = <<"9", "9">>
    /\ ledger[2].Apranga = <<"X", " ", "(", "3", "2", " ", "d", "y", "d", "i", "s", ")">>
    /\ gear_file = Append(InitialGearFile, GearRow(<<"9", "9">>, <<"X">>))

\* the lines that hold a code the catalog has no name for: the operator
\* gave the dialog no name, or the dialog was never opened
Unresolved == {l \in 1..FormRows : /\ Strip(rows[l].code) # <<>>
                                   /\ LineCode(l).base \notin DOMAIN gear_codes}

\* C17: a step that writes to the ledger writes no row for a line whose code
\* the catalog has no name for, the catalog file holds no entry for that
\* code, and every other line that has a name gets its row.
C17_UnnamedExcluded ==
    [][Len(ledger') > Len(ledger) =>
         LET k == Len(ledger') - Len(ledger)
         IN /\ \A l \in Unresolved :
                  /\ \A i \in 1..k : ledger'[i].Kodas # LineCode(l).base
                  /\ \A g \in 1..Len(gear_file') : Strip(gear_file'[g].code) # LineCode(l).base
            /\ k = Cardinality(Named \ Unresolved)]_vars

\* the rows of a catalog file that hold the code
EntriesOf(file, code) == {g \in 1..Len(file) : Strip(file[g].code) = code}

\* C16: a registration for a code the catalog file holds leaves the file and
\* the loaded catalog as they were, whatever the name; any registration
\* leaves the file as it was or puts one row for the code under it, keeps
\* every loaded name, and leaves a code with at most one row; the same
\* registration made a second time changes nothing.
C16_RegisterOnce ==
    [][ret'.op \in {"ensure_gear_code_exists", "add_gear_code_to_excel"} =>
         LET code == Strip(ret'.out[1])
         IN /\ EntriesOf(gear_file, code) # {} =>
                  /\ gear_file' = gear_file
                  /\ code \in DOMAIN gear_codes =>
                        code \in DOMAIN gear_codes' /\ gear_codes'[code] = gear_codes[code]
            /\ \/ gear_file' = gear_file
               \/ /\ Len(gear_file') = Len(gear_file) + 1
                  /\ SubSeq(gear_file', 1, Len(gear_file)) = gear_file
                  /\ gear_file'[Len(gear_file')].code = code
                  /\ code # <<>> /\ gear_file'[Len(gear_file')].name # <<>>
            /\ \A c \in DOMAIN gear_codes :
                  c \in DOMAIN gear_codes' /\ gear_codes'[c] = gear_codes[c]
            /\ \A c \in RegCodes : Cardinality(EntriesOf(gear_file', Strip(c))) <= 1
            /\ (ret.op = ret'.op /\ ret.out = ret'.out) =>
                  gear_file' = gear_file /\ gear_codes' = gear_codes]_vars

\* 99 was registered as "X" and then registered again as "Y": one row, "X"
C16_Witness ==
    /\ ret.op = "ensure_gear_code_exists"
    /\ ret.out = <<<<"9", "9">>, <<"Y">>>>
    /\ gear_file = Append(InitialGearFile, GearRow(<<"9", "9">>, <<"X">>))
    /\ gear_codes[<<"9", "9">>] = <<"X">>

\* a row whose date and wear period can be read
WellFormed(r) == parse_date(r.Isduota) # NoDate /\ ~MonthsRaise(r)

\* C18: the resolver does not raise, and returns what it returns for the
\* ledger without the rows whose issue date or wear period cannot be read.
C18_MalformedSkipped ==
    ret.op = "current_gear_for_employee" =>
        /\ ~ret.raised
        /\ ret.out = current_gear_for_employee(SelectSeq(ledger, WellFormed), ret.who, today).out

\* the rows of a directory sheet with this id, and the sheet without them
WithTab(dir, t) == {i \in 1..Len(dir) : Strip(dir[i].TabNr) = t}
Others(dir, t) == SelectSeq(dir, LAMBDA r : Strip(r.TabNr) # t)

\* the directory row holds what the upsert was given
Carries(r, e) ==
    /\ Strip(r.TabNr) = Strip(e.tab_nr)
    /\ FullName(r) = JoinWords(Words(Strip(e.name)))
    /\ r.Padalinys = e.department /\ r.Pareigos = e.position /\ r.Lytis = e.gender

\* an upsert for the id t leaves one row per id, leaves the rows of the
\* other ids as they were and in their order, and changes nothing when repeated
UpsertKeeps(t) ==
    /\ \A i \in 1..Len(directory') : Cardinality(WithTab(directory', Strip(directory'[i].TabNr))) = 1
    /\ Others(directory', t) = Others(directory, t)
    /\ upsert(directory', ret'.who) = directory'

\* C19: an upsert with an id and a name leaves exactly one row for the id,
\* carrying its values, in the row's place if the id was there and on top if
\* not; the rows of the other ids are unchanged, there is one row per id, and
\* the same upsert again changes nothing. An upsert without a name changes
\* nothing.
C19_UpsertByTab ==
    [][ret'.op = "upsert" =>
         LET e == ret'.who
             t == Strip(e.tab_nr)
         IN IF t = <<>> \/ Strip(e.name) = <<>> THEN directory' = directory
            ELSE /\ UpsertKeeps(t)
                 /\ \E i \in 1..Len(directory') :
                       /\ WithTab(directory', t) = {i}
                       /\ Carries(directory'[i], e)
                       /\ IF WithTab(directory, t) = {}
                          THEN i = 1 /\ Len(directory') = Len(directory) + 1
                          ELSE WithTab(directory, t) = {i} /\ Len(directory') = Len(directory)]_vars

\* C19 as stated: after every upsert for an id the id's row carries the
\* values of that upsert
C19_LastUpsertCarried ==
    [][(ret'.op = "upsert" /\ Strip(ret'.who.tab_nr) # <<>>) =>
         /\ UpsertKeeps(Strip(ret'.who.tab_nr))
         /\ \E i \in 1..Len(directory') :
               /\ WithTab(directory', Strip(ret'.who.tab_nr)) = {i}
               /\ Carries(directory'[i], ret'.who)]_vars

\* employee 3 was inserted on top, then employee 1 was moved to D2/P2 in place
C19_Witness ==
    /\ ret.op = "upsert" /\ ret.who.tab_nr = <<"1">> /\ ret.who.department = D2
    /\ Len(directory) = 3
    /\ Strip(directory[1].TabNr) = <<"3">>
    /\ Strip(directory[2].TabNr) = <<"1">> /\ directory[2].Padalinys = D2
    /\ Strip(directory[3].TabNr) = <<"2">>

\* EmployeeInfoPage.on_next saves in the "Keisti padalinį" flow
ContextChangeSaved == page = "EmployeeInfoPage" /\ change_mode /\ page' = "NewGearPage"

\* C20: saving a change of department and position puts a row on the ledger
\* with the employee's id, the new department and position and empty Kodas
\* and Apranga; the ledger changes in no step other than such a save and an
\* issuance.
C20_ContextMarker ==
    [][/\ ContextChangeSaved =>
            /\ Len(ledger') = Len(ledger) + 1
            /\ SubSeq(ledger', 2, Len(ledger')) = ledger
            /\ ledger'[1].TabNr = current_employee'.tab_nr
            /\ ledger'[1].Padalinys = current_employee'.department
            /\ ledger'[1].Pareigos = current_employee'.position
            /\ ledger'[1].Kodas = <<>> /\ ledger'[1].Apranga = <<>>
       /\ ledger' # ledger => ContextChangeSaved \/ Len(log') = Len(log) + 1]_vars

\* an employee's id, name, department and position are all there
Complete(e) == e.tab_nr # <<>> /\ e.name # <<>> /\ e.department # <<>> /\ e.position # <<>>

\* a required field of the info page is empty
Missing == \E f \in {info.tab_var, info.name_var, info.dept_var, info.pos_var} : Strip(f) = <<>>

\* C21: a step taken on the info page while the id, the name, the department
\* or the position is empty changes neither the directory nor the ledger,
\* every step that changes the directory writes a row with all four, and
\* every issuance is for an employee with all four, as are its ledger rows.
C21_RequiredFields ==
    [][/\ (page = "EmployeeInfoPage" /\ Missing) =>
             directory' = directory /\ ledger' = ledger /\ page' # "NewGearPage"
       /\ directory' # directory =>
             \E i \in 1..Len(directory') :
                /\ Complete(RowEmployee(directory'[i]))
                /\ RowEmployee(directory'[i]) = [current_employee' EXCEPT !.issue_date = NoDate]
       /\ Len(log') > Len(log) => Complete(log'[Len(log')].emp)
       /\ \A i \in 1..(Len(ledger') - Len(ledger)) :
             /\ ledger'[i].TabNr # <<>> /\ ledger'[i].Vardas # <<>>
             /\ ledger'[i].Padalinys # <<>> /\ ledger'[i].Pareigos # <<>>]_vars

\* "Toliau" was refused for a new employee with id and name typed in and no
\* department to pick, and the directory is as it was found
C21_Witness ==
    /\ ret.op = "on_next_refused"
    /\ Strip(info.tab_var) # <<>> /\ Strip(info.name_var) # <<>>
    /\ Strip(info.dept_var) = <<>>
    /\ directory \in InputDirectories

\* C22: every show("CurrentGearPage") with a current employee set, from
\* "Toliau" on the select page, from saving a new employee on the info page
\* and from "Atgal" on the form, completes its refresh and raises the page.
C22_CurrentGearShown ==
    [][(ret'.op = "CurrentGearPage.refresh" /\ current_employee'.some) =>
          ~ret'.raised /\ page' = "CurrentGearPage"]_vars

\* C23: every row a step puts on the ledger has an item code that is not
\* empty and is a code of the loaded catalog, and its name without the size
\* suffix is the catalog's name for that code.
C23_RowsFromCatalog ==
    [][\A i \in 1..(Len(ledger') - Len(ledger)) :
          /\ ledger'[i].Kodas # <<>>
          /\ ledger'[i].Kodas \in DOMAIN gear_codes
          /\ strip_size_suffix(ledger'[i].Apranga) = gear_codes[ledger'[i].Kodas]]_vars

\* the employee was in the directory when the program started
Existing(e) == \E i \in 1..Len(InitialDirectory) : Strip(InitialDirectory[i].TabNr) = e.tab_nr

\* C24: an issuance for an employee who was already in the directory is dated
\* today, whatever date the info page holds from earlier passes through the
\* wizard; each ledger row it writes carries today's date.
C24_ExistingDatedToday ==
    [][(Len(log') > Len(log) /\ Existing(log'[Len(log')].emp)) =>
          /\ log'[Len(log')].issued = today
          /\ \A i \in 1..(Len(ledger') - Len(ledger)) :
                ledger'[i].Isduota = StrCell(IsoFormat(today))]_vars

====
